---- MODULE Spec2Model ----
(***************************************************************************)
(* Playback scheduler of WWM Auto-Bard (src/src/autobard/app.py).          *)
(*                                                                         *)
(* The control surface (GUI buttons, global hotkeys) calls start(),        *)
(* pause(), stop(), seek(), ... on AutoBardApp; every start() of a new     *)
(* session launches a daemon thread running _play_with_countdown().        *)
(* Control operations are taken as atomic up to the point where they       *)
(* block in Thread.join(timeout); worker threads are modelled statement    *)
(* group by statement group, one step for each stretch of code between two *)
(* points where the thread sleeps, waits or calls the key sink.            *)
(***************************************************************************)
EXTENDS Integers, Sequences, FiniteSets, TLC

\* ---------------------------------------------------------------- bounds
MaxNotes == 3          \* notes in the longest compiled song of the library
MaxWorkers == 2        \* playback threads that can be alive at once
MaxCountdown == 2      \* largest configured countdown_seconds
MaxOps == 4            \* control operations called in one run
MaxLiveOps == 2        \* start/pause/stop calls in one run from a loaded song
MaxObservers == 3      \* callbacks registered for one kind of notification
MaxSeekOps == 4        \* start/pause/stop/seek calls in one run from a loaded song
MaxOnsets == 3         \* note-on events in the longest event list given to the pipeline

\* ------------------------------------------------------ program constants
StartJoinTimeoutMs == 500     \* start(): join(timeout=0.5)
StopJoinTimeoutMs == 1000     \* stop(): join(timeout=1.0)
CountdownSleepMs == 1000      \* _play_with_countdown: time.sleep(1.0)
PausePollMs == 50             \* _play_optimized: time.sleep(0.05)
MinNoteDelayMs == 80          \* AppConfig.min_note_delay_ms

Workers == 1..MaxWorkers
NoThread == 0
None == -1
NoSong == <<-1>>

\* PlaybackState
READY == "READY"
PLAYING == "PLAYING"
PAUSED == "PAUSED"
STOPPED == "STOPPED"
PlaybackState == {READY, PLAYING, PAUSED, STOPPED}

\* Compiled songs are sequences of CompiledNote.chord_size: the first member
\* of a cluster carries the cluster size (1 for a single note), later
\* members carry 0.  Indices of the model are 0-based like the source's:
\* NoteAt(song, i) is song.notes[i].
SinglesSong(n) == [k \in 1..n |-> 1]
ChordSong(n) == [k \in 1..n |-> IF k = 1 THEN 2 ELSE IF k = 2 THEN 0 ELSE 1]
Library == {ChordSong(MaxNotes), <<>>}
\* file lists tried for set_playlist(files)
Playlists == {<<SinglesSong(1), ChordSong(MaxNotes)>>}

total_notes(song) == Len(song)

\* what load_file(path) raises when the file cannot be parsed
MidiParseError == <<-2>>

\* GAME_MIN_MIDI, GAME_MAX_MIDI, GAME_RANGE
GAME_MIN_MIDI == 48
GAME_MAX_MIDI == 83
GAME_RANGE == GAME_MAX_MIDI - GAME_MIN_MIDI + 1

\* a rounding that drops the fraction
round_down(num, den) == num \div den

\* Python's round() of the rational num / den (den > 0): to the nearest
\* integer, a tie going to the even one
round(num, den) ==
    LET q == num \div den
        r == num - q * den
    IN  IF 2 * r < den THEN q
        ELSE IF 2 * r > den THEN q + 1
        ELSE IF q % 2 = 0 THEN q ELSE q + 1

\* Transposer.calculate_offset((song_min, song_max)); raw_offset is
\* game_center - song_center = raw2 / 2
calculate_offset(song_min, song_max) ==
    LET song_range == song_max - song_min + 1
        raw2 == (GAME_MIN_MIDI + GAME_MAX_MIDI) - (song_min + song_max)
        octave_offset == round(raw2, 24) * 12
    IN  IF song_min >= GAME_MIN_MIDI /\ song_max <= GAME_MAX_MIDI THEN 0
        ELSE IF song_range <= GAME_RANGE
        THEN IF song_min + octave_offset >= GAME_MIN_MIDI
                /\ song_max + octave_offset <= GAME_MAX_MIDI
             THEN octave_offset
             ELSE round(raw2, 2)
        ELSE round(raw2, 2)

\* The note-on pitches of the file a compiled song comes from: the k-th
\* note of a file of n notes lies k - 1 octaves above C2.
FilePitches(song) == [k \in 1..Len(song) |-> 36 + 12 * (k - 1)]

MinOf(S) == CHOOSE x \in S : \A y \in S : x <= y
MaxOf(S) == CHOOSE x \in S : \A y \in S : x >= y
Range(f) == {f[k] : k \in DOMAIN f}

\* lines 144-149: the offset of the loaded events, 0 for none
OffsetOf(pitches) ==
    IF pitches = <<>> THEN 0
    ELSE calculate_offset(MinOf(Range(pitches)), MaxOf(Range(pitches)))

ChordSizeAt(song, i) == song[i + 1]

\* arguments tried for seek(position) and seek_percent(percent, in hundredths)
SeekInputs == {-5, 1, MaxNotes + 5}
PercentInputs == {0, 100}

\* base_delay after speed, density, velocity and jitter, in milliseconds
BaseDelaysMs == {0, 200}

Max(a, b) == IF a >= b THEN a ELSE b
Min(a, b) == IF a <= b THEN a ELSE b

VARIABLES
    state,              \* self._state
    stop_flag,          \* self._stop_flag (threading.Event)
    pause_flag,         \* self._pause_flag (threading.Event)
    current_position,   \* self._current_position
    start_position,     \* self._start_position
    ab_loop_start,      \* self._ab_loop_start (None = -1)
    ab_loop_end,        \* self._ab_loop_end
    loop_mode,          \* self._config.loop_mode
    countdown_seconds,  \* self._config.countdown_seconds
    events,             \* self._events: the pitches of the note-on events loaded
    transpose_offset,   \* self._transpose_offset
    compiled_song,      \* self._compiled_song (NoSong before the first load)
    playlist,           \* self._playlist (the songs its files load to)
    playlist_index,     \* self._playlist_index
    playback_thread,    \* self._playback_thread (worker id, NoThread = None)
    ctl,                \* where the control thread is blocked: idle / start_join / stop_join
    pc,                 \* per worker: position in _play_with_countdown / _play_optimized
    w_i,                \* per worker: local i of _play_optimized
    w_song,             \* per worker: local song of _play_optimized
    w_cd,               \* per worker: countdown loop variable i
    w_delay,            \* per worker: actual_delay (ms) of the note being scheduled
    next_time,          \* self._precision_timer._next_time: "reference", the point
                        \* start() or reset() set, or "advanced" by wait(duration)
    progress,           \* the (current, total) the step just taken delivered to the
                        \* progress observers, <<>> if it notified nothing
    lastOp,             \* the step just taken: <<operation, argument>>
    ops,                \* control operations the run may still call
    op_released,        \* release_all() was called by the control operation last begun
    emit_after_stop,    \* per worker: sink calls begun while the stop signal has stayed set
    emit_after_pause,   \* per worker: sink calls begun while the pause signal has stayed set
    emit_log,           \* per worker: indices handed to the sink in the current pass
    pass_start,         \* per worker: index the current pass started from
    session_clean,      \* per worker: no seek, A-B jump or sink failure since its start()
    detoured,           \* per worker: an A-B jump or a sink failure since its start()
    cd_log,             \* per worker: the seconds its countdown observers were notified of
    jumped,             \* per worker: <<a>> after an A-B jump to index a until the
                        \* next note is handed over, <<>> otherwise
    cd_stopped,         \* per worker: the stop signal was seen set during its countdown
    part,               \* the object of a component exercised on its own: the
                        \* fields of a PrecisionTimer or of a KeyboardService
    applied,            \* a call of a pure function of the note pipeline: the function,
                        \* its argument and what it returned
    resumed,            \* <<>>, <<k>> after a resume with stored index k,
                        \* <<k, i, d>> once note i was then handed over after delay d
    notice,             \* the last delivery to the observers: what was notified, what
                        \* each callback did, which were called, whether an exception got out
    sought              \* <<>>, <<k>> after a seek to index k outside PLAYING,
                        \* <<k, None>> once start() was then called, <<k, i>> when
                        \* the session it started or resumed hands over its first note i

progVars == <<state, stop_flag, pause_flag, current_position, start_position,
              ab_loop_start, ab_loop_end, loop_mode, countdown_seconds,
              events, transpose_offset, compiled_song, playlist, playlist_index,
              playback_thread, ctl,
              pc, w_i, w_song, w_cd, w_delay, next_time>>
wHist == <<emit_after_stop, emit_after_pause, emit_log, pass_start, session_clean,
           detoured, cd_log,
           jumped>>
vars == <<progVars, progress, lastOp, ops, op_released, wHist, resumed, sought, notice,
          cd_stopped, applied, part>>

flags == <<stop_flag, pause_flag>>
loaded == <<events, transpose_offset, compiled_song>>
positions == <<current_position, start_position>>
abLoop == <<ab_loop_start, ab_loop_end>>
config == <<loop_mode, countdown_seconds>>
playlistVars == <<playlist, playlist_index>>
threads == <<playback_thread, pc>>
wLocals == <<w_i, w_song, w_cd, w_delay, next_time>>

\* threading.Thread.is_alive()
is_alive(w) == w # NoThread /\ pc[w] # "dead"
Alive == {w \in Workers : pc[w] # "dead"}
FreeSlot == CHOOSE w \in Workers : pc[w] = "dead" /\ \A v \in Workers : pc[v] = "dead" => w <= v

\* a worker that polls the pause signal where it should poll the stop signal
stop_is_set_reads_pause_flag == pause_flag

\* self._stop_flag.is_set() as read by the worker
stop_is_set == stop_flag

\* a worker that polls the stop signal where it should poll the pause signal
pause_is_set_reads_stop_flag == stop_flag

\* self._pause_flag.is_set() as read by the worker (line 511)
pause_is_set == pause_flag

\* Places where a worker sleeps, and whether that sleep can outlast a join
\* timeout: the note wait and the sink call have no upper bound.
MayOutlast(loc, timeoutMs) ==
    \/ loc \in {"wait", "emit"}
    \/ loc = "cd_sleep" /\ CountdownSleepMs > timeoutMs
    \/ loc = "loop_top" /\ pause_flag /\ PausePollMs > timeoutMs

\* no component is exercised on its own
NoPart == [kind |-> "none"]

\* what a song is loaded with
IsLoaded(song) ==
    /\ compiled_song = song
    /\ events = IF song = NoSong THEN <<>> ELSE FilePitches(song)
    /\ transpose_offset = IF song = NoSong THEN 0 ELSE OffsetOf(FilePitches(song))

\* AutoBardApp.__init__, but for the configuration, the song, the loop
\* settings, the playlist and the run length
Constructed ==
    /\ state = READY
    /\ stop_flag = FALSE
    /\ pause_flag = FALSE
    /\ current_position = 0
    /\ start_position = 0
    /\ playlist_index = 0
    /\ playback_thread = NoThread
    /\ ctl = "idle"
    /\ pc = [w \in Workers |-> "dead"]
    /\ w_i = [w \in Workers |-> 0]
    /\ w_song = [w \in Workers |-> <<>>]
    /\ w_cd = [w \in Workers |-> 0]
    /\ w_delay = [w \in Workers |-> 0]
    /\ next_time = "reference"
    /\ progress = <<>>
    /\ lastOp = <<"init", 0>>
    /\ op_released = FALSE
    /\ emit_after_stop = [w \in Workers |-> 0]
    /\ emit_after_pause = [w \in Workers |-> 0]
    /\ emit_log = [w \in Workers |-> <<>>]
    /\ pass_start = [w \in Workers |-> 0]
    /\ session_clean = [w \in Workers |-> TRUE]
    /\ detoured = [w \in Workers |-> FALSE]
    /\ cd_log = [w \in Workers |-> <<>>]
    /\ jumped = [w \in Workers |-> <<>>]
    /\ cd_stopped = [w \in Workers |-> FALSE]
    /\ resumed = <<>>
    /\ sought = <<>>
    /\ notice = [kind |-> "none", arg |-> "", callbacks |-> <<>>,
                 called |-> <<>>, raised |-> FALSE]

\* no pure function has been called on its own
NoCall == applied = [fn |-> "none", arg |-> <<>>, ret |-> <<>>]

\* the application runs as a whole: no pure function has been called and
\* no component is exercised on its own
Unapplied == NoCall /\ part = NoPart

\* the application as constructed: no song, no playlist, no loops
Init ==
    /\ Constructed
    /\ Unapplied
    /\ countdown_seconds \in {0, MaxCountdown}
    /\ IsLoaded(NoSong)
    /\ playlist = <<>>
    /\ loop_mode = FALSE
    /\ ab_loop_start = None
    /\ ab_loop_end = None
    /\ ops = MaxOps

\* one way the application is set up before playing
Setup(files, song, loop, a, b, countdown) ==
    /\ playlist = files
    /\ IsLoaded(song)
    /\ loop_mode = loop
    /\ ab_loop_start = a
    /\ ab_loop_end = b
    /\ countdown_seconds = countdown

\* The application set up for playing: a song loaded by load_midi(path) with
\* a countdown configured, or with loop mode toggled on, or with the A-B loop
\* set around the whole song by set_ab_loop(0, last), or a playlist set by
\* set_playlist(files) with its first file loaded.
LoadedInit ==
    /\ Constructed
    /\ Unapplied
    /\ \/ Setup(<<>>, ChordSong(MaxNotes), FALSE, None, None, MaxCountdown)
       \/ Setup(<<>>, ChordSong(MaxNotes), TRUE, None, None, 0)
       \/ Setup(<<>>, ChordSong(MaxNotes), FALSE, 0, MaxNotes - 1, 0)
       \/ \E files \in Playlists : Setup(files, files[1], FALSE, None, None, 0)
    /\ ops = MaxLiveOps

\* ------------------------------------------------------------ control ops

\* the locations of the countdown loop of _play_with_countdown
InCountdown == {"cd_check", "cd_sleep"}

\* every step records which live workers were in their countdown while the
\* stop signal was set
Watch ==
    cd_stopped' = [w \in Workers |->
                     IF pc[w] \in {"dead", "spawned"} THEN FALSE
                     ELSE cd_stopped[w] \/ (stop_flag /\ pc[w] \in InCountdown)]

\* a step that notifies no progress observer
Quiet == progress' = <<>>

\* what a seek asked for is void: another operation set the position or the song
Unsought == sought' = <<>>

\* start() was called after the seek
Started(s) == IF Len(s) = 1 THEN <<s[1], None>> ELSE s

\* A control operation is called while no other one is in progress.
Call == ctl = "idle" /\ ops > 0 /\ ops' = ops - 1 /\ UNCHANGED <<notice, applied, part>> /\ Watch

\* a load that empties the event list before it parses the file
events_after_cleared(parsed) ==
    IF parsed = MidiParseError THEN <<>> ELSE FilePitches(parsed)

\* lines 119-129: self._events is assigned what load_file returned; when
\* load_file raises, the assignment is never reached
events_after(parsed) ==
    IF parsed = MidiParseError THEN events ELSE FilePitches(parsed)

\* the assignments of a load_midi(path) that succeeds (lines 124-157)
Load(song) ==
    /\ events' = FilePitches(song)
    /\ transpose_offset' = OffsetOf(FilePitches(song))
    /\ compiled_song' = song

\* load_midi(path): load_file either returns the parsed events or raises.
\* When it returns, events, offset and compiled song are replaced and the
\* state is set to READY (_set_state); when it raises, the handler of lines
\* 173-175 logs and returns False.
load_midi(parsed) ==
    /\ Call
    /\ events' = events_after(parsed)
    /\ IF parsed = MidiParseError
       THEN /\ lastOp' = <<"load_midi_failed", 0>>
            /\ UNCHANGED <<transpose_offset, compiled_song, state, sought>>
       ELSE /\ transpose_offset' = OffsetOf(FilePitches(parsed))
            /\ compiled_song' = parsed
            /\ state' = READY
            /\ lastOp' = <<"load_midi", 0>>
            /\ Unsought
    /\ Quiet
    /\ op_released' = FALSE
    /\ UNCHANGED <<flags, positions, abLoop, config, playlistVars, threads, ctl, wLocals,
                   wHist, resumed>>

\* the event lists a track selection of the current file can give
Tracks == {SinglesSong(1), ChordSong(MaxNotes)}

\* reload_track(track), lines 721-773: the events are read again (the read
\* raises when no file is current or the track does not parse), filtered and
\* the offset recomputed from them; _compiled_song is not assigned; the
\* state is set to READY.  When the read raises, the handler logs and
\* returns False.
reload_track(parsed) ==
    /\ Call
    /\ compiled_song = NoSong => parsed = MidiParseError
    /\ events' = events_after(parsed)
    /\ IF parsed = MidiParseError
       THEN /\ lastOp' = <<"reload_track_failed", 0>>
            /\ UNCHANGED <<transpose_offset, state>>
       ELSE /\ transpose_offset' = OffsetOf(FilePitches(parsed))
            /\ state' = READY
            /\ lastOp' = <<"reload_track", 0>>
    /\ Quiet
    /\ op_released' = FALSE
    /\ UNCHANGED <<compiled_song, sought, flags, positions, abLoop, config, playlistVars,
                   threads, ctl, wLocals, wHist, resumed>>

\* the tail of start(): clear both flags and launch a new thread
Launch ==
    /\ stop_flag' = FALSE
    /\ pause_flag' = FALSE
    /\ playback_thread' = FreeSlot
    /\ pc' = [pc EXCEPT ![FreeSlot] = "spawned"]
    /\ ctl' = "idle"
    /\ emit_after_stop' = [w \in Workers |-> 0]
    /\ emit_after_pause' = [w \in Workers |-> 0]
    /\ session_clean' = [session_clean EXCEPT ![FreeSlot] = TRUE]
    /\ detoured' = [detoured EXCEPT ![FreeSlot] = FALSE]
    /\ resumed' = <<>>
    /\ sought' = Started(sought)
    /\ UNCHANGED <<state, positions, abLoop, config, playlistVars, loaded,
                   wLocals, emit_log, pass_start, cd_log, jumped>>

\* the body of start()
start_body ==
    IF compiled_song = NoSong
    THEN UNCHANGED <<progVars, wHist, resumed, sought>>
    ELSE IF state = PLAYING
    THEN UNCHANGED <<progVars, wHist, resumed, sought>>
    ELSE IF state = PAUSED
    THEN /\ pause_flag' = FALSE
         /\ state' = PLAYING
         /\ resumed' = <<start_position>>
         /\ sought' = Started(sought)
         /\ UNCHANGED <<stop_flag, positions, abLoop, config, playlistVars, loaded,
                        threads, ctl, wLocals, wHist>>
    ELSE IF is_alive(playback_thread)
    THEN /\ stop_flag' = TRUE
         /\ ctl' = "start_join"
         /\ sought' = Started(sought)
         /\ UNCHANGED <<state, pause_flag, positions, abLoop, config, playlistVars,
                        loaded, threads, wLocals, wHist, resumed>>
    ELSE Launch

\* start()
start ==
    /\ Call
    /\ \E w \in Workers : pc[w] = "dead"
    /\ start_body
    /\ lastOp' = <<"start", 0>>
    /\ Quiet
    /\ op_released' = FALSE

\* start(): join(timeout=0.5) returns, because the thread ended or because
\* the timeout passed while it slept; the new thread is launched either way.
start_join_return ==
    /\ ctl = "start_join"
    /\ \/ ~is_alive(playback_thread)
       \/ MayOutlast(pc[playback_thread], StartJoinTimeoutMs)
    /\ Launch
    /\ lastOp' = <<"start_launch", 0>>
    /\ Quiet
    /\ UNCHANGED <<op_released, ops, notice, applied, part>>
    /\ Watch

\* a pause() without the early return for states other than PLAYING
pause_body_unguarded ==
    /\ pause_flag' = TRUE
    /\ start_position' = current_position
    /\ state' = PAUSED
    /\ resumed' = <<>>
    /\ Unsought
    /\ emit_after_pause' = [w \in Workers |-> 0]
    /\ UNCHANGED <<stop_flag, current_position, abLoop, config, playlistVars,
                   loaded, threads, ctl, wLocals, emit_after_stop, emit_log,
                   pass_start, session_clean, detoured, cd_log, jumped>>

\* the body of pause()
pause_body ==
    IF state # PLAYING
    THEN UNCHANGED <<progVars, wHist, resumed, sought>>
    ELSE /\ pause_flag' = TRUE
         /\ start_position' = current_position
         /\ state' = PAUSED
         /\ resumed' = <<>>
         /\ Unsought
         /\ emit_after_pause' = [w \in Workers |-> 0]
         /\ UNCHANGED <<stop_flag, current_position, abLoop, config, playlistVars,
                        loaded, threads, ctl, wLocals, emit_after_stop, emit_log,
                        pass_start, session_clean, detoured, cd_log, jumped>>

\* pause()
pause ==
    /\ Call
    /\ pause_body
    /\ lastOp' = <<"pause", 0>>
    /\ Quiet
    /\ op_released' = FALSE

\* _on_hotkey_start_pause()
_on_hotkey_start_pause ==
    /\ Call
    /\ \E w \in Workers : pc[w] = "dead"
    /\ IF state = PLAYING
       THEN pause_body
       ELSE IF state \in {READY, PAUSED}
       THEN start_body
       ELSE UNCHANGED <<progVars, wHist, resumed, sought>>
    /\ lastOp' = <<"hotkey_start_pause", 0>>
    /\ Quiet
    /\ op_released' = FALSE

\* a stop() that forgets to reset the start position
stop_finish_keeps_start ==
    /\ current_position' = 0
    /\ UNCHANGED start_position
    /\ state' = STOPPED
    /\ ctl' = "idle"

\* stop(), lines 280-283: reset the positions and set STOPPED
stop_finish ==
    /\ current_position' = 0
    /\ start_position' = 0
    /\ state' = STOPPED
    /\ ctl' = "idle"

\* stop(): set the stop signal, clear the pause signal, release_all(), then
\* join the thread if it is alive.
stop ==
    /\ Call
    /\ stop_flag' = TRUE
    /\ pause_flag' = FALSE
    /\ op_released' = TRUE
    /\ resumed' = <<>>
    /\ Unsought
    /\ Quiet
    /\ IF is_alive(playback_thread)
       THEN /\ ctl' = "stop_join"
            /\ lastOp' = <<"stop_join", 0>>
            /\ UNCHANGED <<state, positions>>
       ELSE /\ stop_finish
            /\ lastOp' = <<"stop", 0>>
    /\ UNCHANGED <<abLoop, config, playlistVars, loaded, threads, wLocals, wHist>>

\* stop(): join(timeout=1.0) returns and stop() runs to its end
stop_join_return ==
    /\ ctl = "stop_join"
    /\ \/ ~is_alive(playback_thread)
       \/ MayOutlast(pc[playback_thread], StopJoinTimeoutMs)
    /\ stop_finish
    /\ lastOp' = <<"stop", 0>>
    /\ Quiet
    /\ Unsought
    /\ Watch
    /\ UNCHANGED <<flags, op_released, ops, notice, applied, part, abLoop, config, playlistVars, loaded, threads,
                   wLocals, wHist, resumed>>

\* a clamp that forgets the lower bound
ClampPosition_upper_only(position, max_pos) == Min(position, max_pos)

\* max(0, min(position, max_pos))
ClampPosition(position, max_pos) == Max(0, Min(position, max_pos))

\* the body of seek(position)
seek_body(position) ==
    IF compiled_song = NoSong
    THEN UNCHANGED <<positions, session_clean, detoured, sought>> /\ Quiet
    ELSE /\ start_position' = ClampPosition(position, total_notes(compiled_song) - 1)
         /\ current_position' = start_position'
         /\ sought' = IF state # PLAYING /\ total_notes(compiled_song) > 0
                       THEN <<start_position'>> ELSE <<>>
         /\ progress' = <<start_position', total_notes(compiled_song)>>
         /\ session_clean' = [w \in Workers |-> FALSE]
         /\ UNCHANGED detoured

\* seek(position)
seek(position) ==
    /\ Call
    /\ seek_body(position)
    /\ lastOp' = <<"seek", position>>
    /\ op_released' = FALSE
    /\ UNCHANGED <<state, flags, abLoop, config, playlistVars, loaded, threads, ctl,
                   wLocals, emit_after_stop, emit_after_pause, emit_log, pass_start, cd_log, jumped,
                   resumed>>

\* int(total_notes * max(0, min(1, percent))), percent given in hundredths
PercentPosition(total, pct) == (total * Max(0, Min(100, pct))) \div 100

\* seek_percent(percent)
seek_percent(pct) ==
    /\ Call
    /\ IF compiled_song = NoSong
       THEN UNCHANGED <<positions, session_clean, detoured, sought>> /\ Quiet
       ELSE seek_body(PercentPosition(total_notes(compiled_song), pct))
    /\ lastOp' = <<"seek_percent", pct>>
    /\ op_released' = FALSE
    /\ UNCHANGED <<state, flags, abLoop, config, playlistVars, loaded, threads, ctl,
                   wLocals, emit_after_stop, emit_after_pause, emit_log, pass_start, cd_log, jumped,
                   resumed>>

\* set_loop_a()
set_loop_a ==
    /\ Call
    /\ ab_loop_start' = current_position
    /\ lastOp' = <<"set_loop_a", 0>>
    /\ Quiet
    /\ Unsought
    /\ op_released' = FALSE
    /\ UNCHANGED <<state, flags, positions, ab_loop_end, config, playlistVars, loaded,
                   threads, ctl, wLocals, wHist, resumed>>

\* set_loop_b()
set_loop_b ==
    /\ Call
    /\ ab_loop_end' = current_position
    /\ lastOp' = <<"set_loop_b", 0>>
    /\ Quiet
    /\ Unsought
    /\ op_released' = FALSE
    /\ UNCHANGED <<state, flags, positions, ab_loop_start, config, playlistVars, loaded,
                   threads, ctl, wLocals, wHist, resumed>>

\* clear_ab_loop()
clear_ab_loop ==
    /\ Call
    /\ ab_loop_start' = None
    /\ ab_loop_end' = None
    /\ lastOp' = <<"clear_ab_loop", 0>>
    /\ Quiet
    /\ UNCHANGED sought
    /\ op_released' = FALSE
    /\ UNCHANGED <<state, flags, positions, config, playlistVars, loaded,
                   threads, ctl, wLocals, wHist, resumed>>

\* toggle_loop()
toggle_loop ==
    /\ Call
    /\ loop_mode' = ~loop_mode
    /\ lastOp' = <<"toggle_loop", 0>>
    /\ Quiet
    /\ UNCHANGED sought
    /\ op_released' = FALSE
    /\ UNCHANGED <<state, flags, positions, abLoop, countdown_seconds, playlistVars,
                   loaded, threads, ctl, wLocals, wHist, resumed>>

\* set_playlist(files): the first file is loaded
set_playlist(files) ==
    /\ Call
    /\ playlist' = files
    /\ playlist_index' = 0
    /\ IF files # <<>>
       THEN Load(files[1]) /\ state' = READY
       ELSE UNCHANGED <<loaded, state>>
    /\ lastOp' = <<"set_playlist", 0>>
    /\ Quiet
    /\ Unsought
    /\ op_released' = FALSE
    /\ UNCHANGED <<flags, positions, abLoop, config, threads, ctl, wLocals,
                   wHist, resumed>>

Control ==
    \/ \E parsed \in Library \cup {MidiParseError} : load_midi(parsed)
    \/ \E files \in Playlists : set_playlist(files)
    \/ start
    \/ start_join_return
    \/ pause
    \/ _on_hotkey_start_pause
    \/ stop
    \/ stop_join_return
    \/ \E position \in SeekInputs : seek(position)
    \/ \E pct \in PercentInputs : seek_percent(pct)
    \/ set_loop_a
    \/ set_loop_b
    \/ clear_ab_loop
    \/ toggle_loop

\* ------------------------------------------------- the playback thread
\* Every step of a worker leaves the control thread where it is.
Goto(w, loc) == pc' = [pc EXCEPT ![w] = loc]

\* the thread function returns: the thread is dead and its locals are gone
Die(w) ==
    /\ Goto(w, "dead")
    /\ w_i' = [w_i EXCEPT ![w] = 0]
    /\ w_song' = [w_song EXCEPT ![w] = <<>>]
    /\ w_cd' = [w_cd EXCEPT ![w] = 0]
    /\ w_delay' = [w_delay EXCEPT ![w] = 0]
    /\ emit_after_stop' = [emit_after_stop EXCEPT ![w] = 0]
    /\ emit_after_pause' = [emit_after_pause EXCEPT ![w] = 0]
    /\ emit_log' = [emit_log EXCEPT ![w] = <<>>]
    /\ pass_start' = [pass_start EXCEPT ![w] = 0]
    /\ session_clean' = [session_clean EXCEPT ![w] = TRUE]
    /\ detoured' = [detoured EXCEPT ![w] = FALSE]
    /\ cd_log' = [cd_log EXCEPT ![w] = <<>>]
    /\ jumped' = [jumped EXCEPT ![w] = <<>>]
    /\ UNCHANGED next_time

WorkerStep(w) ==
    /\ lastOp' = <<"worker", 0>>
    /\ UNCHANGED <<ctl, playback_thread, op_released, ops, notice, applied, part, abLoop,
                   config,
                   flags>>
    /\ Watch

\* _play_with_countdown, lines 224-233: the countdown runs only from index
\* 0; without a countdown the state is set to PLAYING at once
W_Begin(w) ==
    /\ pc[w] = "spawned"
    /\ WorkerStep(w)
    /\ Quiet
    /\ UNCHANGED sought
    /\ state' = PLAYING
    /\ IF countdown_seconds > 0 /\ start_position = 0
       THEN /\ w_cd' = [w_cd EXCEPT ![w] = countdown_seconds]
            /\ Goto(w, "cd_check")
       ELSE /\ Goto(w, "outer")
            /\ UNCHANGED w_cd
    /\ UNCHANGED <<positions, loaded, playlistVars, w_i, w_song, w_delay,
                   next_time, wHist, resumed>>

\* countdown loop, lines 226-229: stop check, then the notification
W_CountdownCheck(w) ==
    /\ pc[w] = "cd_check"
    /\ WorkerStep(w)
    /\ Quiet
    /\ UNCHANGED sought
    /\ IF stop_is_set
       THEN Die(w)
       ELSE /\ Goto(w, "cd_sleep")
            /\ cd_log' = [cd_log EXCEPT ![w] = Append(cd_log[w], w_cd[w])]
            /\ UNCHANGED <<wLocals, emit_after_stop, emit_after_pause, emit_log, pass_start,
                           session_clean, detoured, jumped>>
    /\ UNCHANGED <<state, positions, loaded, playlistVars, resumed>>

\* countdown loop, line 230: time.sleep(1.0) is over; after the last round
\* lines 231-233 notify 0 and set PLAYING
W_CountdownSleep(w) ==
    /\ pc[w] = "cd_sleep"
    /\ WorkerStep(w)
    /\ Quiet
    /\ UNCHANGED sought
    /\ w_cd' = [w_cd EXCEPT ![w] = w_cd[w] - 1]
    /\ IF w_cd[w] - 1 > 0
       THEN Goto(w, "cd_check") /\ UNCHANGED <<state, cd_log>>
       ELSE /\ Goto(w, "outer")
            /\ cd_log' = [cd_log EXCEPT ![w] = Append(cd_log[w], 0)]
            /\ state' = PLAYING
    /\ UNCHANGED <<positions, loaded, playlistVars, w_i, w_song,
                   w_delay, next_time, emit_after_stop, emit_after_pause, emit_log, pass_start,
                   session_clean, detoured, jumped, resumed>>

\* line 237 and the entry of _play_optimized (lines 490-504)
W_Outer(w) ==
    /\ pc[w] = "outer"
    /\ WorkerStep(w)
    /\ Quiet
    /\ UNCHANGED sought
    /\ IF stop_is_set
       THEN Die(w)
       ELSE IF compiled_song = NoSong \/ total_notes(compiled_song) = 0
       THEN /\ Goto(w, "after_play")
            /\ UNCHANGED <<wLocals, wHist>>
       ELSE /\ w_song' = [w_song EXCEPT ![w] = compiled_song]
            /\ w_i' = [w_i EXCEPT ![w] = start_position]
            /\ emit_log' = [emit_log EXCEPT ![w] = <<>>]
            /\ pass_start' = [pass_start EXCEPT ![w] = start_position]
            /\ next_time' = "reference"
            /\ jumped' = [jumped EXCEPT ![w] = <<>>]
            /\ Goto(w, "loop_top")
            /\ UNCHANGED <<w_cd, w_delay, emit_after_stop, emit_after_pause, session_clean, detoured,
                           cd_log>>
    /\ UNCHANGED <<state, positions, loaded, playlistVars, resumed>>

\* a jump that lands one note after point A
jump_target_after_a == ab_loop_start + 1

\* line 525: i = self._ab_loop_start
jump_target == ab_loop_start

\* lines 506-527, one round of the playback loop up to the delay pipeline:
\* loop condition and stop checks (507, 515), one poll of the pause loop
\* (511-513, the worker stays here while paused, resetting the timer),
\* position tracking (519) and the A-B loop jump with its timer reset
\* (522-527)
W_LoopTop(w) ==
    /\ pc[w] = "loop_top"
    /\ WorkerStep(w)
    /\ Quiet
    /\ IF ~(w_i[w] < total_notes(w_song[w])) \/ stop_is_set
       THEN /\ Goto(w, "cleanup")
            /\ UNCHANGED <<current_position, w_i, session_clean, detoured, sought,
                           next_time, jumped>>
       ELSE IF pause_is_set
       THEN /\ next_time' = "reference"
            /\ UNCHANGED <<pc, current_position, w_i, session_clean, detoured, sought,
                           jumped>>
       ELSE /\ current_position' = w_i[w]
            /\ IF ab_loop_end # None /\ ab_loop_start # None /\ w_i[w] >= ab_loop_end
               THEN /\ w_i' = [w_i EXCEPT ![w] = jump_target]
                    /\ next_time' = "reference"
                    /\ jumped' = [jumped EXCEPT ![w] = <<jump_target>>]
                    /\ session_clean' = [session_clean EXCEPT ![w] = FALSE]
                    /\ detoured' = [detoured EXCEPT ![w] = TRUE]
                    /\ Unsought
                    /\ UNCHANGED pc
               ELSE /\ Goto(w, "delay")
                    /\ UNCHANGED <<w_i, session_clean, detoured, sought, next_time,
                                   jumped>>
    /\ UNCHANGED <<state, start_position, loaded, playlistVars, w_song,
                   w_cd, w_delay, emit_after_stop, emit_after_pause, emit_log,
                   pass_start, cd_log, resumed>>

\* line 550: max(base_delay, min_delay) if i > self._start_position else 0
actual_delay(base_delay, i) ==
    IF i > start_position THEN Max(base_delay, MinNoteDelayMs) ELSE 0

\* lines 529-556: the delay pipeline; a positive delay starts the timer
\* wait, a zero delay goes straight to the stop check of line 556
W_Delay(w) ==
    /\ pc[w] = "delay"
    /\ WorkerStep(w)
    /\ Quiet
    /\ UNCHANGED sought
    /\ \E base_delay \in BaseDelaysMs :
         /\ w_delay' = [w_delay EXCEPT ![w] = actual_delay(base_delay, w_i[w])]
         /\ IF actual_delay(base_delay, w_i[w]) > 0
            THEN Goto(w, "wait") /\ next_time' = "advanced"
            ELSE /\ UNCHANGED next_time
                 /\ IF stop_is_set THEN Goto(w, "cleanup") ELSE Goto(w, "call")
    /\ UNCHANGED <<state, positions, loaded, playlistVars, w_i, w_song,
                   w_cd, wHist, resumed>>

\* lines 554-556: PrecisionTimer.wait returns, then the stop check
W_Wait(w) ==
    /\ pc[w] = "wait"
    /\ WorkerStep(w)
    /\ Quiet
    /\ UNCHANGED sought
    /\ IF stop_is_set THEN Goto(w, "cleanup") ELSE Goto(w, "call")
    /\ UNCHANGED <<state, positions, loaded, playlistVars, wLocals,
                   wHist, resumed>>

Append1(log, i) == IF Len(log) > MaxNotes THEN log ELSE Append(log, i)

\* a loop that takes its index from the shared start position once that is ahead
next_index_follows_start_position(w) == Max(w_i[w], start_position)

\* note = song.notes[i]: the note handed over is the one at the loop's own i
next_index(w) == w_i[w]

\* lines 561-573: press / press_multiple is called with the note at i
W_Call(w) ==
    /\ pc[w] = "call"
    /\ WorkerStep(w)
    /\ Quiet
    /\ Goto(w, "emit")
    /\ emit_log' = [emit_log EXCEPT ![w] = Append1(emit_log[w], next_index(w))]
    /\ emit_after_stop' = [emit_after_stop EXCEPT ![w] =
                             IF stop_flag THEN Min(2, emit_after_stop[w] + 1) ELSE 0]
    /\ emit_after_pause' = [emit_after_pause EXCEPT ![w] =
                              IF pause_flag THEN Min(2, emit_after_pause[w] + 1) ELSE 0]
    /\ resumed' = IF Len(resumed) = 1
                  THEN <<resumed[1], w_i[w], w_delay[w]>>
                  ELSE resumed
    /\ w_delay' = [w_delay EXCEPT ![w] = 0]
    /\ jumped' = [jumped EXCEPT ![w] = <<>>]
    /\ sought' = IF w = playback_thread /\ Len(sought) = 2 /\ sought[2] = None
                  THEN <<sought[1], w_i[w]>>
                  ELSE sought
    /\ UNCHANGED <<state, positions, loaded, playlistVars, w_i, w_song,
                   w_cd, next_time, pass_start, session_clean, detoured, cd_log>>

\* a loop that steps by one note after a chord as well
advance_by_one(song, i) == i + 1

\* i += note.chord_size for a chord, i += 1 for a single note
advance(song, i) ==
    IF ChordSizeAt(song, i) > 1 THEN i + ChordSizeAt(song, i) ELSE i + 1

\* the first note after the seek has been handed over
Served(s) == IF Len(s) = 2 /\ s[2] # None THEN <<>> ELSE s

\* lines 564-577: the sink call returned; advance and notify progress
W_EmitDone(w) ==
    /\ pc[w] = "emit"
    /\ WorkerStep(w)
    /\ w_i' = [w_i EXCEPT ![w] = advance(w_song[w], w_i[w])]
    /\ progress' = <<advance(w_song[w], w_i[w]), total_notes(w_song[w])>>
    /\ sought' = Served(sought)
    /\ Goto(w, "loop_top")
    /\ UNCHANGED <<state, positions, loaded, playlistVars, w_song, w_cd,
                   w_delay, next_time, wHist, resumed>>

\* a handler that leaves the index where it is, so that the call is tried again
after_failure_retries(i) == i

\* except Exception: i += 1
after_failure(i) == i + 1

\* lines 579-581: the sink call raised; logged, i += 1
W_EmitFail(w) ==
    /\ pc[w] = "emit"
    /\ WorkerStep(w)
    /\ Quiet
    /\ w_i' = [w_i EXCEPT ![w] = after_failure(w_i[w])]
    /\ session_clean' = [session_clean EXCEPT ![w] = FALSE]
    /\ detoured' = [detoured EXCEPT ![w] = TRUE]
    /\ sought' = Served(sought)
    /\ Goto(w, "loop_top")
    /\ UNCHANGED <<state, positions, loaded, playlistVars, w_song, w_cd,
                   w_delay, next_time, emit_after_stop, emit_after_pause, emit_log, pass_start, cd_log,
                   jumped, resumed>>

\* lines 584-589: timer stop, start position reset, READY unless stopped
W_Cleanup(w) ==
    /\ pc[w] = "cleanup"
    /\ WorkerStep(w)
    /\ Quiet
    /\ UNCHANGED sought
    /\ start_position' = 0
    /\ IF ~stop_is_set THEN state' = READY ELSE UNCHANGED state
    /\ Goto(w, "after_play")
    /\ UNCHANGED <<current_position, loaded, playlistVars, wLocals,
                   wHist, resumed>>

\* a playlist step that loads the current entry again
next_entry_stays(index) == index

\* self._playlist_index += 1
next_entry(index) == index + 1

\* lines 244-255: whole-song loop, playlist advance, or the end of the thread
W_AfterPlay(w) ==
    /\ pc[w] = "after_play"
    /\ WorkerStep(w)
    /\ Quiet
    /\ IF loop_mode /\ ~stop_is_set
       THEN /\ start_position' = 0
            /\ Goto(w, "outer")
            /\ Unsought
            /\ UNCHANGED <<state, loaded, playlistVars, wLocals, wHist>>
       ELSE IF playlist # <<>> /\ playlist_index < Len(playlist) - 1
       THEN /\ playlist_index' = next_entry(playlist_index)
            /\ Load(playlist[next_entry(playlist_index) + 1])
            /\ state' = READY
            /\ Goto(w, "outer")
            /\ Unsought
            /\ UNCHANGED <<start_position, playlist, wLocals, wHist>>
       ELSE /\ Die(w)
            /\ UNCHANGED <<state, start_position, loaded, playlistVars, sought>>
    /\ UNCHANGED <<current_position, resumed>>

Worker(w) ==
    \/ W_Begin(w)
    \/ W_CountdownCheck(w)
    \/ W_CountdownSleep(w)
    \/ W_Outer(w)
    \/ W_LoopTop(w)
    \/ W_Delay(w)
    \/ W_Wait(w)
    \/ W_Call(w)
    \/ W_EmitDone(w)
    \/ W_EmitFail(w)
    \/ W_Cleanup(w)
    \/ W_AfterPlay(w)

Next == Control \/ \E w \in Workers : Worker(w)

\* the transport controls alone: start, pause and stop
Transport ==
    \/ start
    \/ start_join_return
    \/ pause
    \/ stop
    \/ stop_join_return

PlayNext == Transport \/ \E w \in Workers : Worker(w)

Spec == Init /\ [][Next]_vars

\* Playing a loaded song, every thread getting to run: a worker that can take
\* a step takes it, and a join whose thread ended or whose timeout passed
\* returns.  The user is never obliged to call anything.
FairSpec ==
    /\ LoadedInit /\ [][PlayNext]_vars
    /\ \A w \in Workers : WF_vars(Worker(w))
    /\ WF_vars(start_join_return)
    /\ WF_vars(stop_join_return)

\* a song loaded and the loop points set by set_ab_loop(a, b) to any two
\* of its indices, or a countdown configured
LoopedInit ==
    /\ Constructed
    /\ Unapplied
    /\ \/ \E a, b \in 0..(MaxNotes - 1) :
            Setup(<<>>, ChordSong(MaxNotes), FALSE, a, b, 0)
       \/ Setup(<<>>, ChordSong(MaxNotes), FALSE, None, None, MaxCountdown)
    /\ ops = MaxLiveOps

\* playing with the loop points set, every thread getting to run
LoopedSpec ==
    /\ LoopedInit /\ [][PlayNext]_vars
    /\ \A w \in Workers : WF_vars(Worker(w))
    /\ WF_vars(start_join_return)
    /\ WF_vars(stop_join_return)

\* a song loaded, and a run of loads, track selections, start, pause and stop
ReloadNext ==
    \/ \E parsed \in Library \cup {MidiParseError} : load_midi(parsed)
    \/ \E parsed \in Tracks \cup {MidiParseError} : reload_track(parsed)
    \/ PlayNext

ReloadSpec == LoadedInit /\ [][ReloadNext]_vars

\* a song loaded, with or without a countdown, and a run of start, pause,
\* stop and seek
SoughtInit ==
    /\ Constructed
    /\ Unapplied
    /\ \E countdown \in {0, MaxCountdown} :
         Setup(<<>>, ChordSong(MaxNotes), FALSE, None, None, countdown)
    /\ ops = MaxSeekOps

SeekNext ==
    \/ start
    \/ start_join_return
    \/ pause
    \/ stop
    \/ stop_join_return
    \/ \E position \in SeekInputs : seek(position)
    \/ \E w \in Workers : Worker(w)

SeekSpec == SoughtInit /\ [][SeekNext]_vars

\* ------------------------------------------------------ observer delivery
\* What a callback does when it is called.
Outcomes == {"returns", "raises"}
NotificationKinds == {"state", "progress", "time", "countdown"}
\* the callbacks registered for one kind, each with what it is going to do
ObserverLists == UNION {[1..n -> Outcomes] : n \in 0..MaxObservers}

\* a delivery loop whose handler lets the exception through
caught_never(outcome) == FALSE

\* try: callback(...) / except Exception: the exception is logged and dropped
caught(outcome) == outcome = "raises"

RECURSIVE deliver(_, _, _)
\* for callback in callbacks: try/except around each call; k is the next
\* callback, called the callbacks called so far
deliver(callbacks, k, called) ==
    IF k > Len(callbacks)
    THEN [called |-> called, raised |-> FALSE]
    ELSE IF callbacks[k] = "raises" /\ ~caught(callbacks[k])
    THEN [called |-> Append(called, k), raised |-> TRUE]
    ELSE deliver(callbacks, k + 1, Append(called, k))

\* _notify_progress, _notify_time, _notify_countdown: the delivery alone
\* _set_state(new_state): self._state = new_state, then the delivery
Notify(kind, callbacks, new_state) ==
    /\ notice' = [kind |-> kind,
                  arg |-> IF kind = "state" THEN new_state ELSE "",
                  callbacks |-> callbacks,
                  called |-> deliver(callbacks, 1, <<>>).called,
                  raised |-> deliver(callbacks, 1, <<>>).raised]
    /\ state' = IF kind = "state" THEN new_state ELSE state
    /\ lastOp' = <<kind, Len(callbacks)>>
    /\ Quiet
    /\ Watch
    /\ UNCHANGED <<flags, positions, abLoop, config, loaded, playlistVars, threads,
                   ctl, wLocals, wHist, ops, op_released, resumed, sought, applied,
                   part>>

NotifyNext ==
    \E kind \in NotificationKinds, callbacks \in ObserverLists, new_state \in PlaybackState :
        Notify(kind, callbacks, new_state)

\* deliveries of every kind to every list of callbacks, from the constructed
\* application
NotifySpec == Init /\ [][NotifyNext]_vars

\* ------------------------------------------------- the note pipeline

\* MIDI note numbers are 0..127
MaxMidiNote == 127

\* Pitch, Accidental; NoteName by its value, DO = 1 .. TI = 7
LOW == "LOW"
MID == "MID"
HIGH == "HIGH"
Pitch == {HIGH, MID, LOW}
NATURAL == "NATURAL"
SHARP == "SHARP"
FLAT == "FLAT"
Accidental == {NATURAL, SHARP, FLAT}
DO == 1
RE == 2
MI == 3
FA == 4
SOL == 5
LA == 6
TI == 7
NoteName == DO..TI

GameNote(pitch, name, accidental) ==
    [pitch |-> pitch, name |-> name, accidental |-> accidental]
GameNotes == [pitch : Pitch, name : NoteName, accidental : Accidental]
KeyPress(key, modifiers) == [key |-> key, modifiers |-> modifiers]

\* a table that spells the five black keys as sharps
SEMITONE_TO_NOTE_in_sharps ==
    [semitone \in 0..11 |->
       CASE semitone = 0 -> <<DO, NATURAL>>
         [] semitone = 1 -> <<DO, SHARP>>
         [] semitone = 2 -> <<RE, NATURAL>>
         [] semitone = 3 -> <<RE, SHARP>>
         [] semitone = 4 -> <<MI, NATURAL>>
         [] semitone = 5 -> <<FA, NATURAL>>
         [] semitone = 6 -> <<FA, SHARP>>
         [] semitone = 7 -> <<SOL, NATURAL>>
         [] semitone = 8 -> <<SOL, SHARP>>
         [] semitone = 9 -> <<LA, NATURAL>>
         [] semitone = 10 -> <<LA, SHARP>>
         [] semitone = 11 -> <<TI, NATURAL>>]

\* SEMITONE_TO_NOTE, semitone 0 (C) .. 11 (B)
SEMITONE_TO_NOTE ==
    [semitone \in 0..11 |->
       CASE semitone = 0 -> <<DO, NATURAL>>
         [] semitone = 1 -> <<DO, SHARP>>
         [] semitone = 2 -> <<RE, NATURAL>>
         [] semitone = 3 -> <<MI, FLAT>>
         [] semitone = 4 -> <<MI, NATURAL>>
         [] semitone = 5 -> <<FA, NATURAL>>
         [] semitone = 6 -> <<FA, SHARP>>
         [] semitone = 7 -> <<SOL, NATURAL>>
         [] semitone = 8 -> <<SOL, SHARP>>
         [] semitone = 9 -> <<LA, NATURAL>>
         [] semitone = 10 -> <<TI, FLAT>>
         [] semitone = 11 -> <<TI, NATURAL>>]

\* NoteConverter(): base_octave, min_midi_note, max_midi_note
base_octave == 4
min_midi_note == base_octave * 12
max_midi_note == (base_octave + 3) * 12 - 1

\* a converter that takes the note as it comes
clamped_note_as_given(midi_note) == midi_note

\* line 88: clamp to the playable range
clamped_note(midi_note) == Max(min_midi_note, Min(midi_note, max_midi_note))

\* NoteConverter.convert(midi_note)
convert(midi_note) ==
    LET octave == clamped_note(midi_note) \div 12
        semitone == clamped_note(midi_note) % 12
        octave_offset == octave - base_octave
        pitch == IF octave_offset <= 0 THEN LOW
                 ELSE IF octave_offset = 1 THEN MID
                 ELSE HIGH
    IN  GameNote(pitch, SEMITONE_TO_NOTE[semitone][1], SEMITONE_TO_NOTE[semitone][2])

\* NATURAL_KEYS, SHARP_KEYS, FLAT_KEYS: per pitch, the key of each note name
NATURAL_KEYS ==
    [pitch \in Pitch |->
       CASE pitch = HIGH -> <<"q", "w", "e", "r", "t", "y", "u">>
         [] pitch = MID -> <<"a", "s", "d", "f", "g", "h", "j">>
         [] pitch = LOW -> <<"z", "x", "c", "v", "b", "n", "m">>]
SHARP_KEYS ==
    [pitch \in Pitch |->
       CASE pitch = HIGH -> (DO :> "q" @@ FA :> "r" @@ SOL :> "t")
         [] pitch = MID -> (DO :> "a" @@ FA :> "f" @@ SOL :> "g")
         [] pitch = LOW -> (DO :> "z" @@ FA :> "v" @@ SOL :> "b")]
FLAT_KEYS ==
    [pitch \in Pitch |->
       CASE pitch = HIGH -> (MI :> "e" @@ TI :> "u")
         [] pitch = MID -> (MI :> "d" @@ TI :> "j")
         [] pitch = LOW -> (MI :> "c" @@ TI :> "m")]

SHARPS_SUPPORTED == {DO, FA, SOL}

\* a table of flats without the flat of TI
FLATS_SUPPORTED_without_ti == {MI}

FLATS_SUPPORTED == {MI, TI}

\* KeyMapper._get_natural_key, _get_sharp_key, _get_flat_key
get_natural_key(pitch, name) == KeyPress(NATURAL_KEYS[pitch][name], <<>>)
get_sharp_key(pitch, name) ==
    IF name \notin SHARPS_SUPPORTED THEN get_natural_key(pitch, name)
    ELSE KeyPress(SHARP_KEYS[pitch][name], <<"shift">>)
get_flat_key(pitch, name) ==
    IF name \notin FLATS_SUPPORTED THEN get_natural_key(pitch, name)
    ELSE KeyPress(FLAT_KEYS[pitch][name], <<"ctrl">>)

\* KeyMapper.get_key_press(game_note)
get_key_press(game_note) ==
    IF game_note.accidental = SHARP
    THEN get_sharp_key(game_note.pitch, game_note.name)
    ELSE IF game_note.accidental = FLAT
    THEN get_flat_key(game_note.pitch, game_note.name)
    ELSE get_natural_key(game_note.pitch, game_note.name)

\* KeyMapper.is_accidental_supported(name, accidental)
is_accidental_supported(name, accidental) ==
    IF accidental = NATURAL THEN TRUE
    ELSE IF accidental = SHARP THEN name \in SHARPS_SUPPORTED
    ELSE IF accidental = FLAT THEN name \in FLATS_SUPPORTED
    ELSE FALSE

\* The application as constructed, nothing loaded and no operation to be
\* called: the pure functions are called on their own.
Blank ==
    /\ Constructed
    /\ Setup(<<>>, NoSong, FALSE, None, None, 0)
    /\ ops = 0

\* an argument is given
Given(args) ==
    /\ part = NoPart
    /\ \E arg \in args : applied = [fn |-> "none", arg |-> arg, ret |-> <<>>]

\* the function is called with the argument and returns
Apply(fn, ret) ==
    /\ applied.fn = "none"
    /\ applied' = [applied EXCEPT !.fn = fn, !.ret = ret]
    /\ lastOp' = <<fn, 0>>
    /\ UNCHANGED <<progVars, progress, ops, op_released, wHist, resumed, sought, notice,
                   cd_stopped, part>>

\* convert(p) for every MIDI note p
ConvertInit == Blank /\ Given(0..MaxMidiNote)
apply_convert == Apply("convert", convert(applied.arg))
ConvertSpec == ConvertInit /\ [][apply_convert]_vars

\* compile, lines 83-85: the game note and the key command of one event,
\* from its MIDI note and the transpose offset of the song
key_of(transposed) ==
    [game_note |-> convert(transposed),
     key_press |-> get_key_press(convert(transposed))]
TransposedNotes ==
    {[note |-> n, offset |-> o] : n \in 0..MaxMidiNote,
                                  o \in (0 - MaxMidiNote)..MaxMidiNote}
PipelineInit == Blank /\ Given(TransposedNotes)
apply_key_of == Apply("key_of", key_of(applied.arg.note + applied.arg.offset))
PipelineSpec == PipelineInit /\ [][apply_key_of]_vars

\* get_key_press and is_accidental_supported for every notation
KeyInit == Blank /\ Given(GameNotes)
apply_get_key_press == Apply("get_key_press", get_key_press(applied.arg))
apply_is_accidental_supported ==
    Apply("is_accidental_supported",
          is_accidental_supported(applied.arg.name, applied.arg.accidental))
KeyNext == apply_get_key_press \/ apply_is_accidental_supported
KeySpec == KeyInit /\ [][KeyNext]_vars

\* calculate_offset((song_min, song_max)) for every range of MIDI notes
NoteRanges == {r \in (0..MaxMidiNote) \X (0..MaxMidiNote) : r[1] <= r[2]}
OffsetInit == Blank /\ Given(NoteRanges)
apply_calculate_offset ==
    Apply("calculate_offset", calculate_offset(applied.arg[1], applied.arg[2]))

\* a count that looks at the notes as they are, without the offset
get_out_of_range_count_unshifted(pitches, offset) ==
    <<Cardinality({k \in DOMAIN pitches : pitches[k] < GAME_MIN_MIDI}),
      Cardinality({k \in DOMAIN pitches : pitches[k] > GAME_MAX_MIDI})>>

\* Transposer.get_out_of_range_count(events, offset): the notes that are
\* below and those that are above the range after the shift
get_out_of_range_count(pitches, offset) ==
    <<Cardinality({k \in DOMAIN pitches : pitches[k] + offset < GAME_MIN_MIDI}),
      Cardinality({k \in DOMAIN pitches :
                     /\ ~(pitches[k] + offset < GAME_MIN_MIDI)
                     /\ pitches[k] + offset > GAME_MAX_MIDI})>>

\* the notes of a song that has every pitch of the range once
Chromatic(song_min, song_max) == [k \in 1..(song_max - song_min + 1) |-> song_min + k - 1]

\* get_out_of_range_count of such a song with the offset calculated for it
apply_get_out_of_range_count ==
    Apply("get_out_of_range_count",
          get_out_of_range_count(Chromatic(applied.arg[1], applied.arg[2]),
                                 calculate_offset(applied.arg[1], applied.arg[2])))

OffsetNext == apply_calculate_offset \/ apply_get_out_of_range_count
OffsetSpec == OffsetInit /\ [][OffsetNext]_vars

\* ------------------------------------------------ the best-fit window

\* NoteEvent(note, velocity, time_delta), a note-on event; time_delta is in
\* milliseconds
NoteEvent(note, velocity, time_delta) ==
    [note |-> note, velocity |-> velocity, time_delta |-> time_delta]

\* Event lists of up to MaxOnsets note-on events with the given pitches and
\* deltas; the k-th event has velocity 60 + k, so that every event of a
\* list can be told from the others.
Streams(pitches, deltas) ==
    UNION {{[k \in 1..n |-> NoteEvent(ps[k], 60 + k, ds[k])] :
              ps \in [1..n -> pitches], ds \in [1..n -> deltas]} : n \in 0..MaxOnsets}

\* pitches 35, 36 and 37 semitones apart, and deltas that are and are not 0
WindowPitches == {40, 75, 76, 112}
WindowDeltasMs == {0, 500}
WindowStreams == Streams(WindowPitches, WindowDeltasMs)

\* [e.note for e in events]
NotesOf(evs) == [k \in DOMAIN evs |-> evs[k].note]

\* line 210: the notes between start and start + GAME_RANGE - 1
CountIn(notes, start_note) ==
    Cardinality({k \in DOMAIN notes : start_note <= notes[k] /\ notes[k] <= start_note + GAME_RANGE - 1})

\* a comparison that lets a later window of the same count win
better_or_equal(count, best_count) == count >= best_count

\* line 211: if count > best_count
better(count, best_count) == count > best_count

\* lines 208-213: the windows from start to last, in turn
RECURSIVE slide(_, _, _, _, _)
slide(notes, start_note, last, best_start, best_count) ==
    IF start_note > last THEN <<best_start, best_count>>
    ELSE IF better(CountIn(notes, start_note), best_count)
    THEN slide(notes, start_note + 1, last, start_note, CountIn(notes, start_note))
    ELSE slide(notes, start_note + 1, last, best_start, best_count)

\* Transposer.find_best_window(events)
find_best_window(evs) ==
    LET notes == NotesOf(evs)
        min_note == MinOf(Range(notes))
        max_note == MaxOf(Range(notes))
    IN  IF evs = <<>> THEN <<GAME_MIN_MIDI, 0>>
        ELSE IF max_note - min_note < GAME_RANGE THEN <<min_note, Len(notes)>>
        ELSE slide(notes, min_note, max_note - GAME_RANGE + 1, min_note, 0)

\* a filter that gives a kept event the delta it came with
kept_delta_own(time_delta, accumulated_time) == time_delta

\* line 246: time_delta=accumulated_time
kept_delta(time_delta, accumulated_time) == accumulated_time

\* lines 235-249: the events from the k-th on
RECURSIVE filter_from(_, _, _, _, _)
filter_from(evs, window_start, k, accumulated_time, filtered) ==
    IF k > Len(evs) THEN filtered
    ELSE IF window_start <= evs[k].note
            /\ evs[k].note <= window_start + GAME_RANGE - 1
    THEN filter_from(evs, window_start, k + 1, 0,
                     Append(filtered,
                            NoteEvent(evs[k].note, evs[k].velocity,
                                      kept_delta(evs[k].time_delta,
                                                 accumulated_time + evs[k].time_delta))))
    ELSE filter_from(evs, window_start, k + 1,
                     accumulated_time + evs[k].time_delta, filtered)

\* Transposer.filter_to_window(events, window_start)
filter_to_window(evs, window_start) == filter_from(evs, window_start, 1, 0, <<>>)

\* app.py line 138: if span > 36, with span = max(notes) - min(notes)
too_wide(span) == span > 36

\* load_midi, lines 134-141: with auto_optimize, a song that is too wide is
\* cut down to its best window
optimized(auto_optimize, evs) ==
    IF auto_optimize /\ evs # <<>>
          /\ too_wide(MaxOf(Range(NotesOf(evs))) - MinOf(Range(NotesOf(evs))))
    THEN filter_to_window(evs, find_best_window(evs)[1])
    ELSE evs

\* load_midi, lines 129-149: the events kept and the offset calculated for
\* them
loaded_events(auto_optimize, evs) ==
    [events |-> optimized(auto_optimize, evs),
     transpose_offset |-> OffsetOf(NotesOf(optimized(auto_optimize, evs)))]

\* the absolute time of the k-th event of a list: the sum of the deltas up
\* to and including its own
RECURSIVE OnsetTime(_, _)
OnsetTime(evs, k) == IF k = 0 THEN 0 ELSE OnsetTime(evs, k - 1) + evs[k].time_delta

\* window starts tried for filter_to_window
WindowStarts == {40, 41, 76}

WindowInit == Blank /\ Given(WindowStreams)
apply_find_best_window == Apply("find_best_window", find_best_window(applied.arg))
apply_filter_to_window ==
    \E window_start \in WindowStarts :
        Apply("filter_to_window",
              [window_start |-> window_start,
               events |-> filter_to_window(applied.arg, window_start)])
apply_load_events ==
    \E auto_optimize \in BOOLEAN :
        Apply("load_midi",
              [auto_optimize |-> auto_optimize,
               loaded |-> loaded_events(auto_optimize, applied.arg)])
WindowNext == apply_find_best_window \/ apply_filter_to_window \/ apply_load_events
WindowSpec == WindowInit /\ [][WindowNext]_vars

\* ------------------------------------------------------ the song compiler

\* chord_threshold = 0.05 s; window = 2.0 s of _calculate_density
ChordThresholdMs == 50
DensityWindowMs == 2000

CompiledNote(key, modifiers, time_delta, velocity, is_chord_start, chord_size) ==
    [key |-> key, modifiers |-> modifiers, time_delta |-> time_delta,
     velocity |-> velocity, is_chord_start |-> is_chord_start,
     chord_size |-> chord_size]

\* a grouping that needs the delta to be below the threshold
joins_chord_strictly(time_delta) == time_delta < ChordThresholdMs

\* line 76: events[j].time_delta <= chord_threshold
joins_chord(time_delta) == time_delta <= ChordThresholdMs

\* lines 75-78: the index after the last event of the chord group that
\* reaches up to j - 1
RECURSIVE chord_end(_, _)
chord_end(evs, j) ==
    IF j <= Len(evs) /\ joins_chord(evs[j].time_delta) THEN chord_end(evs, j + 1) ELSE j

\* a compiled note that keeps its event's delta wherever it stands in its
\* chord group
compile_note_with_own_delta(ce, idx, size, offset) ==
    LET key_press == get_key_press(convert(ce.note + offset))
    IN  CompiledNote(key_press.key, key_press.modifiers,
                     ce.time_delta,
                     ce.velocity,
                     idx = 0 /\ size > 1,
                     IF idx = 0 THEN size ELSE 0)

\* lines 81-103: the compiled note of the member idx (0-based) of a chord
\* group of the given size
compile_note(ce, idx, size, offset) ==
    LET key_press == get_key_press(convert(ce.note + offset))
    IN  CompiledNote(key_press.key, key_press.modifiers,
                     IF idx = 0 THEN ce.time_delta ELSE 0,
                     ce.velocity,
                     idx = 0 /\ size > 1,
                     IF idx = 0 THEN size ELSE 0)

\* lines 69-108: the groups from event i (1-based) on; total_time takes the
\* delta of the first event of each group
RECURSIVE compile_from(_, _, _, _, _)
compile_from(evs, offset, i, total_time, compiled) ==
    IF i > Len(evs) THEN [notes |-> compiled, duration |-> total_time]
    ELSE LET j == chord_end(evs, i + 1)
             group == [idx \in 1..(j - i) |->
                         compile_note(evs[i + idx - 1], idx - 1, j - i, offset)]
         IN  compile_from(evs, offset, j, total_time + evs[i].time_delta,
                          compiled \o group)

\* lines 124-128: the cumulative time of the k-th compiled note (1-based)
RECURSIVE cumulative(_, _)
cumulative(compiled, k) ==
    IF k = 0 THEN 0 ELSE cumulative(compiled, k - 1) + compiled[k].time_delta

\* a window that leaves out the notes exactly half a window away
in_window_open(t, tt) ==
    t - DensityWindowMs \div 2 < tt /\ tt < t + DensityWindowMs \div 2

\* line 135: start_t <= tt <= end_t
in_window(t, tt) ==
    t - DensityWindowMs \div 2 <= tt /\ tt <= t + DensityWindowMs \div 2

\* CompiledSong._calculate_density: per note, count / window as the pair
\* of the count and the window in seconds
calculate_density(compiled) ==
    [k \in 1..Len(compiled) |->
       <<Cardinality({m \in 1..Len(compiled) :
                        in_window(cumulative(compiled, k), cumulative(compiled, m))}),
         DensityWindowMs \div 1000>>]

\* CompiledSong.compile(events, transpose_offset, note_converter, key_mapper)
compile(evs, offset) ==
    LET walked == compile_from(evs, offset, 1, 0, <<>>)
    IN  [notes |-> walked.notes,
         total_notes |-> Len(walked.notes),
         duration |-> walked.duration,
         density_map |-> calculate_density(walked.notes)]

\* pitches inside and above the range; deltas at and next to the chord
\* threshold and the half window of the density
CompilePitches == {60, 85}
CompileDeltasMs == {0, 50, 60, 500, 1000}
CompileStreams == Streams(CompilePitches, CompileDeltasMs)

\* load_midi, lines 144-157: the events are compiled with their offset
CompileInit == Blank /\ Given(CompileStreams)
apply_compile ==
    Apply("compile", compile(applied.arg, OffsetOf(NotesOf(applied.arg))))
CompileSpec == CompileInit /\ [][apply_compile]_vars

\* ------------------------------------------------------ the precision timer

\* calls made on one timer, and the clock reading the run stops at
MaxTimerOps == 5

\* durations waited for, time that passes between two calls, and how far a
\* sleep can run past its target, in milliseconds
WaitsMs == {80, 200}
ElapsesMs == {50, 300}
OversleepsMs == {0, 1}

\* PrecisionTimer.__init__ at clock reading 0, with what the calls made
\* since were: the reading of the last start() or reset(), the durations
\* waited for since, and the last call
NewTimer ==
    [kind |-> "PrecisionTimer", now |-> 0, start_time |-> 0, deadline |-> 0,
     calls |-> 0, base |-> 0, waited |-> 0, last |-> [op |-> "init"]]

IsTimer == part.kind = "PrecisionTimer"

\* a call is made on the timer
TimerCall(op) ==
    /\ IsTimer
    /\ part.calls < MaxTimerOps
    /\ lastOp' = <<op, 0>>
    /\ UNCHANGED <<progVars, progress, ops, op_released, wHist, resumed, sought, notice,
                   cd_stopped, applied>>

\* the caller works between two calls: time.perf_counter() moves on
timer_elapse ==
    /\ TimerCall("elapse")
    /\ \E dt \in ElapsesMs :
         part' = [part EXCEPT !.now = @ + dt, !.calls = @ + 1,
                              !.last = [op |-> "elapse"]]

\* start(): _start_time and _next_time are set to perf_counter()
timer_start ==
    /\ TimerCall("start")
    /\ part' = [part EXCEPT !.start_time = part.now, !.deadline = part.now,
                            !.calls = @ + 1, !.base = part.now, !.waited = 0,
                            !.last = [op |-> "start"]]

\* reset(): _next_time = time.perf_counter()
timer_reset ==
    /\ TimerCall("reset")
    /\ part' = [part EXCEPT !.deadline = part.now,
                            !.calls = @ + 1, !.base = part.now, !.waited = 0,
                            !.last = [op |-> "reset"]]

\* precision_sleep(seconds): the readings it can return at; it returns at
\* once for seconds <= 0, and else spins until perf_counter() >= target
precision_sleep(now, seconds) ==
    IF seconds <= 0 THEN {now} ELSE {now + seconds + o : o \in OversleepsMs}

\* a timer that waits for the duration from the moment of the call
next_time_from_now(t, duration) == t.now + duration

\* wait, line 98: self._next_time += duration
next_time_after(t, duration) == t.deadline + duration

\* wait(duration), lines 98-102
timer_wait ==
    /\ TimerCall("wait")
    /\ \E duration \in WaitsMs :
         LET deadline == next_time_after(part, duration)
             remaining == deadline - part.now
         IN  \E returned \in (IF remaining > 0
                               THEN precision_sleep(part.now, remaining)
                               ELSE {part.now}) :
                part' = [part EXCEPT !.deadline = deadline, !.now = returned,
                                     !.calls = @ + 1, !.waited = @ + duration,
                                     !.last = [op |-> "wait", duration |-> duration,
                                               called_at |-> part.now,
                                               deadline_before |-> part.deadline]]

TimerInit == Blank /\ NoCall /\ part = NewTimer
TimerNext == timer_elapse \/ timer_start \/ timer_reset \/ timer_wait
TimerSpec == TimerInit /\ [][TimerNext]_vars

\* ------------------------------------------------- services/keyboard_service.py
\* KeyboardService on its own: one caller inside press() or press_multiple(),
\* and release_all() called from another thread (stop(), app.py line 273).

\* release_all, lines 184 and 191: the keys it releases untracked
ReleasedModifiers == {"shift", "ctrl", "alt"}
ReleasedLetters ==
    {"q", "w", "e", "r", "t", "y", "u", "a", "s", "d", "f", "g", "h", "j",
     "z", "x", "c", "v", "b", "n", "m"}

\* the commands handed to the sink: a natural, a sharp and a flat
SinkCommands ==
    {KeyPress("a", <<>>), KeyPress("a", <<"shift">>), KeyPress("d", <<"ctrl">>)}
SinkChords == {<<p, q>> : p \in SinkCommands, q \in SinkCommands}

\* __init__, lines 19-22
NewKeyboard ==
    [kind |-> "KeyboardService", initialized |-> FALSE, down |-> {},
     held_modifiers |-> {}, script |-> <<>>, at |-> 0, in |-> "idle",
     raised |-> FALSE, swept |-> FALSE, down_after_sweep |-> FALSE,
     outcome |-> "none"]
IsKeyboard == part.kind = "KeyboardService"

KeyCall(do, key, tracked) == [do |-> do, key |-> key, tracked |-> tracked]
ModifierOrder == <<"shift", "ctrl", "alt">>
ModifierCalls(do, modifiers) ==
    LET kept == SelectSeq(ModifierOrder, LAMBDA m : m \in modifiers)
    IN  [i \in 1..Len(kept) |-> KeyCall(do, kept[i], TRUE)]
SeqRange(s) == {s[i] : i \in 1..Len(s)}

\* press, lines 55-70: the keyboard calls of one press, in order
press_calls(key_press) ==
    ModifierCalls("press", SeqRange(key_press.modifiers))
      \o <<KeyCall("press", key_press.key, FALSE),
           KeyCall("release", key_press.key, FALSE)>>
      \o ModifierCalls("release", SeqRange(key_press.modifiers))

\* press_multiple, lines 102-134: the keyboard calls of one chord
press_multiple_calls(key_presses) ==
    LET all_modifiers ==
          UNION {SeqRange(key_presses[i].modifiers) : i \in 1..Len(key_presses)}
    IN  ModifierCalls("press", all_modifiers)
          \o [i \in 1..Len(key_presses) |->
                KeyCall("press", key_presses[i].key, FALSE)]
          \o [i \in 1..Len(key_presses) |->
                KeyCall("release", key_presses[i].key, FALSE)]
          \o ModifierCalls("release", all_modifiers)

KeyboardStep(op) ==
    /\ IsKeyboard
    /\ lastOp' = <<op, 0>>
    /\ UNCHANGED <<progVars, progress, ops, op_released, wHist, resumed, sought, notice,
                   cd_stopped, applied>>

Entered(calls) ==
    [part EXCEPT !.initialized = TRUE, !.script = calls, !.at = 1,
                 !.in = "try", !.raised = FALSE, !.swept = FALSE,
                 !.down_after_sweep = FALSE, !.outcome = "none"]

\* press(key_press): _ensure_initialized and entry of the try block
press ==
    /\ KeyboardStep("press")
    /\ part.in = "idle"
    /\ \E key_press \in SinkCommands : part' = Entered(press_calls(key_press))

\* press_multiple(key_presses): an empty list returns at line 99
press_multiple ==
    /\ KeyboardStep("press_multiple")
    /\ part.in = "idle"
    /\ \E key_presses \in SinkChords \cup {<<>>} :
         part' = IF key_presses = <<>>
                   THEN [part EXCEPT !.outcome = "returned"]
                   ELSE Entered(press_multiple_calls(key_presses))

\* one keyboard call of the try block returns: the key changes state, and
\* _press_modifier / _release_modifier keep _held_modifiers (lines 140-154)
After(p, call) ==
    [p EXCEPT !.down = IF call.do = "press" THEN @ \cup {call.key}
                                              ELSE @ \ {call.key},
              !.held_modifiers =
                  IF ~call.tracked THEN @
                  ELSE IF call.do = "press" THEN @ \cup {call.key}
                                            ELSE @ \ {call.key},
              !.down_after_sweep = @ \/ (p.swept /\ call.do = "press"),
              !.at = @ + 1]
key_call ==
    /\ KeyboardStep("key_call")
    /\ part.in = "try"
    /\ part.at <= Len(part.script)
    /\ part' = After(part, part.script[part.at])

\* one keyboard call of the try block raises: control goes to the except
\* clause; the key may or may not have changed state, the set is not updated
key_call_raises ==
    /\ KeyboardStep("key_call_raises")
    /\ part.in = "try"
    /\ part.at <= Len(part.script)
    /\ ~part.raised
    /\ \E took_effect \in BOOLEAN :
         LET call == part.script[part.at]
             done == IF took_effect THEN [After(part, call) EXCEPT !.held_modifiers = part.held_modifiers]
                                    ELSE part
         IN  part' = [done EXCEPT !.in = "except", !.raised = TRUE, !.at = part.at]

\* the try block ran to its end: the operation returns
press_returns ==
    /\ KeyboardStep("press_returns")
    /\ part.in = "try"
    /\ part.at > Len(part.script)
    /\ part' = [part EXCEPT !.in = "idle", !.at = 0, !.script = <<>>,
                            !.outcome = "returned"]

\* a release_all that lets go of the tracked modifiers only
released_tracked_only(p) ==
    IF ~p.initialized THEN p
    ELSE [p EXCEPT !.down = @ \ p.held_modifiers, !.held_modifiers = {}]

\* release_all, lines 165-196: nothing before the first use; else the tracked
\* modifiers, then shift, ctrl and alt, then every letter of the game
released(p) ==
    IF ~p.initialized THEN p
    ELSE [p EXCEPT !.down = @ \ (p.held_modifiers \cup ReleasedModifiers
                                   \cup ReleasedLetters),
                   !.held_modifiers = {}]

\* except Exception: self.release_all(); raise  (lines 72-74, 136-138)
press_except ==
    /\ KeyboardStep("press_except")
    /\ part.in = "except"
    /\ part' = [released(part) EXCEPT !.in = "idle", !.at = 0, !.script = <<>>,
                                      !.outcome = "raised"]

\* release_all() called by stop() while the caller is anywhere
release_all ==
    /\ KeyboardStep("release_all")
    /\ part' = [released(part) EXCEPT !.swept = (part.in # "idle")]

KeyboardInit == Blank /\ NoCall /\ part = NewKeyboard
KeyboardNext ==
    \/ press
    \/ press_multiple
    \/ key_call
    \/ key_call_raises
    \/ press_returns
    \/ press_except
    \/ release_all
KeyboardSpec == KeyboardInit /\ [][KeyboardNext]_vars


\* ------------------------------------------------------------------ claims

StopReturned == lastOp = <<"stop", 0>>

\* C1: when stop() returns, release_all() has been called by it, both
\* positions are 0 and the state is STOPPED, whatever the state was before.
C1_StopReleasesAndResets ==
    StopReturned => /\ op_released
                    /\ current_position = 0
                    /\ start_position = 0
                    /\ state = STOPPED

\* stop() returned (by the join timeout) while a session was in the wait of a
\* note past index 0
C1_Witness ==
    StopReturned /\ \E w \in Workers : pc[w] = "wait" /\ w_i[w] > 0

\* C2: at most one playback session is alive at any time.
C2_SingleSession == Cardinality(Alive) <= 1

\* C3: while the stop signal stays set a worker begins at most one more sink
\* call, and a sink call that has begun runs to its end: the worker leaves
\* it only by the return of the call.
C3_AtMostOneAfterStop ==
    /\ [](\A w \in Workers : emit_after_stop[w] <= 1)
    /\ [][\A w \in Workers : pc[w] = "emit" => pc'[w] \in {"emit", "loop_top"}]_vars

\* a sink call begun after stop() had set the signal
C3_Witness ==
    \E w \in Workers : stop_flag /\ pc[w] = "emit" /\ emit_after_stop[w] = 1

C5_PauseOnlyFromPlaying ==
    [][lastOp' = <<"pause", 0>> =>
         IF state = PLAYING
         THEN /\ pause_flag'
              /\ start_position' = current_position
              /\ current_position' = current_position
              /\ state' = PAUSED
         ELSE UNCHANGED <<state, pause_flag, start_position, current_position>>]_vars

\* pause() took effect past index 0
C5_Witness ==
    lastOp = <<"pause", 0>> /\ state = PAUSED /\ pause_flag /\ start_position > 0

\* C6: the first note handed to the sink after a resume is the one at the
\* index pause() stored, and it is handed over after a zero delay.
C6_ResumeAtStoredIndex ==
    Len(resumed) = 3 => resumed[2] = resumed[1] /\ resumed[3] = 0

RECURSIVE ChainFrom(_, _)
\* the indices a pass visits from index i on: cluster by cluster
ChainFrom(song, i) ==
    IF i < 0 \/ i >= Len(song)
    THEN <<>>
    ELSE <<i>> \o ChainFrom(song, IF song[i + 1] > 1 THEN i + song[i + 1] ELSE i + 1)

IsPrefix(a, b) == Len(a) <= Len(b) /\ \A k \in 1..Len(a) : a[k] = b[k]

\* index i is the first member of its cluster
ClusterStart(song, i) == song[i + 1] >= 1

\* the pass of worker w ended by running off the end of its song
NaturalEnd(w) == pc[w] = "cleanup" /\ w_i[w] >= Len(w_song[w])

\* what C7 asks of the pass of worker w
ExactlyOnceInOrder(w) ==
    /\ IsPrefix(emit_log[w], ChainFrom(w_song[w], pass_start[w]))
    /\ \A k \in 1..Len(emit_log[w]) : ClusterStart(w_song[w], emit_log[w][k])
    /\ NaturalEnd(w) => emit_log[w] = ChainFrom(w_song[w], pass_start[w])

\* C7 as stated: in a session without seek, A-B jump and sink failure the sink
\* calls are exactly the clusters from the start index on, in order, and no
\* chord member is handed over on its own.
C7_Original ==
    \A w \in Workers : session_clean[w] => ExactlyOnceInOrder(w)

\* C7 as amended: the same for the passes whose start index is the first
\* member of its cluster.
C7_ExactlyOnceFromClusterStart ==
    \A w \in Workers :
        (/\ session_clean[w]
         /\ pass_start[w] < Len(w_song[w]) => ClusterStart(w_song[w], pass_start[w]))
        => ExactlyOnceInOrder(w)

\* a pass with a pause and a resume in it ran to the end of a song with a chord
C7_Witness ==
    \E w \in Workers :
        /\ session_clean[w] /\ NaturalEnd(w)
        /\ Len(resumed) = 3
        /\ emit_log[w] = <<0, 2>>

DocumentedEdges ==
    {<<READY, PLAYING>>, <<PLAYING, PAUSED>>, <<PAUSED, PLAYING>>,
     <<PLAYING, STOPPED>>, <<PAUSED, STOPPED>>, <<STOPPED, READY>>}

\* C8: every change of the state follows an edge of the documented machine.
C8_DocumentedEdgesOnly ==
    [][state' # state => <<state, state'>> \in DocumentedEdges]_vars

\* C9: once stop() has returned, the state returns to READY by itself.
C9_StoppedReturnsToReady ==
    (state = STOPPED /\ ctl = "idle") ~> (state = READY)

\* the index seek(k) must select in a song of n notes
ClampedIndex(k, n) == IF k < 0 THEN 0 ELSE IF k > n - 1 THEN n - 1 ELSE k

\* both positions are at index k and the progress observers were told so
SoughtTo(k) ==
    /\ start_position' = k
    /\ current_position' = k
    /\ progress' = <<k, Len(compiled_song)>>

\* C10: with a song of at least one note loaded, seek(k) puts both positions
\* at k clamped into [0, total-1] and notifies the progress observers;
\* seek_percent(0.0) acts as seek(0), seek_percent(1.0) as seek(total-1).
C10_SeekClamps ==
    [][(compiled_song # NoSong /\ Len(compiled_song) >= 1) =>
         /\ lastOp'[1] = "seek" =>
                SoughtTo(ClampedIndex(lastOp'[2], Len(compiled_song)))
         /\ lastOp' = <<"seek_percent", 0>> =>
                SoughtTo(ClampedIndex(0, Len(compiled_song)))
         /\ lastOp' = <<"seek_percent", 100>> =>
                SoughtTo(ClampedIndex(Len(compiled_song) - 1, Len(compiled_song)))]_vars

\* seek(total+5) left both positions at the last note
C10_Witness ==
    /\ lastOp = <<"seek", MaxNotes + 5>>
    /\ compiled_song # NoSong /\ Len(compiled_song) = MaxNotes
    /\ start_position = MaxNotes - 1 /\ current_position = MaxNotes - 1
    /\ progress = <<MaxNotes - 1, MaxNotes>>

\* C11: the first note handed to the sink by the session that the next
\* start() starts or resumes after a seek to index k outside PLAYING is the
\* note at k.
C11_SeekTakesEffectAtStart ==
    (Len(sought) = 2 /\ sought[2] # None) => sought[2] = sought[1]

\* C12: a seek() during a running pass does not change what the pass hands to
\* the sink: in every session without A-B jump and sink failure, seeks or not,
\* the sink calls are the clusters from the index the pass entered the loop
\* with, in order.
C12_SeekLeavesRunningPassAlone ==
    \A w \in Workers :
        (/\ ~detoured[w]
         /\ pass_start[w] < Len(w_song[w]) => ClusterStart(w_song[w], pass_start[w]))
        => ExactlyOnceInOrder(w)

\* a pass entered at index 0 ran to the end of the song although seek(1) moved
\* the start position to 1 on its way
C12_Witness ==
    \E w \in Workers :
        /\ ~session_clean[w] /\ ~detoured[w]
        /\ pass_start[w] = 0 /\ start_position = 1
        /\ NaturalEnd(w) /\ emit_log[w] = <<0, 2>>

\* the pass of worker w has run off the end of its song and the stop signal
\* is not set
AtNaturalEnd(w) ==
    /\ Len(w_song[w]) > 0 /\ w_i[w] >= Len(w_song[w])
    /\ ~stop_flag

SinkFailure(w) == pc[w] = "emit" /\ pc'[w] # "emit" /\ progress' = <<>>

\* C14: when the sink call for index i raises, the worker stays in the
\* playback loop of the same song, goes on with index i+1 without handing i
\* over again, and the state is left as it is.
C14_SinkFailureSkipsOneIndex ==
    [][\A w \in Workers :
         SinkFailure(w) =>
            /\ pc'[w] = "loop_top"
            /\ w_i'[w] = w_i[w] + 1
            /\ w_song'[w] = w_song[w]
            /\ emit_log'[w] = emit_log[w]
            /\ state' = state]_vars

\* the call for the chord at index 0 raised, indices 1 and 2 were handed over
\* after it, and the pass is at the natural end of the song, still PLAYING
C14_Witness ==
    \E w \in Workers :
        /\ detoured[w] /\ ab_loop_start = None /\ ab_loop_end = None
        /\ NaturalEnd(w) /\ emit_log[w] = <<0, 1, 2>>
        /\ state = PLAYING

\* C15: whatever the callbacks of a notification do, every one of them is
\* called, in order of registration, no exception gets out of the delivery,
\* and the state is the one that was being set (or the one it was, for the
\* other kinds of notification); nothing else of the scheduler changes.
C15_ObserverFailureContained ==
    /\ [](/\ ~notice.raised
          /\ notice.called = [k \in 1..Len(notice.callbacks) |-> k]
          /\ notice.kind = "state" => state = notice.arg)
    /\ [][/\ notice' # notice /\ notice'.kind # "state" => state' = state
          /\ UNCHANGED <<flags, positions, threads, wLocals>>]_vars

\* a state notification whose first callback raised and whose last was called
C15_Witness ==
    /\ notice.kind = "state" /\ state = PAUSED
    /\ Len(notice.callbacks) = MaxObservers
    /\ notice.callbacks[1] = "raises"
    /\ notice.called[MaxObservers] = MaxObservers

\* the seconds a countdown of c notifies: c, c - 1, ..., 1 and then 0
Descending(c) == [k \in 1..(c + 1) |-> c + 1 - k]


\* C16: a session enters the countdown only when it starts from index 0 with
\* a positive countdown configured; its observers are notified of the seconds
\* countdown_seconds, ..., 1 in decreasing order and then of 0; no note is
\* handed to the sink before the notification of 0; and a session whose
\* countdown saw the stop signal set ends without handing over any note.
C16_Countdown ==
    /\ [](\A w \in Workers :
            /\ IsPrefix(cd_log[w], Descending(countdown_seconds))
            /\ emit_log[w] # <<>> /\ cd_log[w] # <<>>
                  => cd_log[w] = Descending(countdown_seconds)
            /\ cd_stopped[w] => emit_log[w] = <<>>)
    /\ [][\A w \in Workers :
            pc[w] = "spawned" /\ pc'[w] = "cd_check"
              => start_position = 0 /\ countdown_seconds > 0]_vars

\* C17: a load whose parser fails reports the failure and leaves the event
\* list, the transpose offset, the compiled song and the playback state as
\* they were, and it does not touch the playback thread, its signals, its
\* position or the indices it plays from.
C17_FailedLoadKeepsSong ==
    [][lastOp' = <<"load_midi_failed", 0>>
         => /\ UNCHANGED <<events, transpose_offset, compiled_song, state>>
            /\ UNCHANGED <<flags, positions, threads, wLocals, playlistVars>>]_vars

\* a failed load has just returned while a session is playing a loaded song
C17_Witness ==
    /\ lastOp = <<"load_midi_failed", 0>>
    /\ state = PLAYING
    /\ events # <<>>
    /\ transpose_offset # 0
    /\ \E w \in Workers : pc[w] = "emit"

\* C18: for every MIDI note p in 0..127, convert(p) has the degree and the
\* accidental the semitone table gives for clamp(p, 48, 83) mod 12 (C is
\* degree 1 natural, C# degree 1 sharp, D degree 2 natural, D# degree 3
\* flat, E degree 3 natural, F degree 4 natural, F# degree 4 sharp, G degree
\* 5 natural, G# degree 5 sharp, A degree 6 natural, A# degree 7 flat, B
\* degree 7 natural) and the band of clamp(p, 48, 83) div 12 minus the base
\* octave 4 (0 LOW, 1 MID, 2 HIGH); and convert(p) = convert(clamp(p, 48, 83)).
C18_ConvertIsTableOfClamped ==
    applied.fn = "convert" =>
      LET c == Max(48, Min(applied.arg, 83))
          degree == <<1, 1, 2, 3, 3, 4, 4, 5, 5, 6, 7, 7>>
          accidental == <<NATURAL, SHARP, NATURAL, FLAT, NATURAL, NATURAL,
                          SHARP, NATURAL, SHARP, NATURAL, FLAT, NATURAL>>
          band == <<LOW, MID, HIGH>>
      IN  /\ applied.ret.name = degree[(c % 12) + 1]
          /\ applied.ret.accidental = accidental[(c % 12) + 1]
          /\ applied.ret.pitch = band[(c \div 12) - 4 + 1]
          /\ applied.ret = convert(c)

\* a note above the range was converted: it is the highest note of HIGH
C18_Witness ==
    /\ applied.fn = "convert"
    /\ applied.arg = 100
    /\ applied.ret = GameNote(HIGH, TI, NATURAL)

\* C19: for every notation, a sharp of degree 1, 4 or 5 is the key of that
\* band and degree with exactly the shift modifier; a flat of degree 3 or 7
\* is that key with exactly the ctrl modifier; every other sharp or flat is
\* what the natural of that band and degree is, with no modifier; and
\* is_accidental_supported is true exactly when there is no such fallback.
C19_AccidentalKeys ==
    LET note == applied.arg
        sharp == note.accidental = SHARP /\ note.name \in {1, 4, 5}
        flat == note.accidental = FLAT /\ note.name \in {3, 7}
        fallback == note.accidental \in {SHARP, FLAT} /\ ~sharp /\ ~flat
        band_keys == NATURAL_KEYS[note.pitch]
        natural == get_key_press(GameNote(note.pitch, note.name, NATURAL))
    IN  /\ applied.fn = "get_key_press" =>
            /\ sharp => applied.ret = KeyPress(band_keys[note.name], <<"shift">>)
            /\ flat => applied.ret = KeyPress(band_keys[note.name], <<"ctrl">>)
            /\ fallback => applied.ret = natural /\ applied.ret.modifiers = <<>>
        /\ applied.fn = "is_accidental_supported" => (applied.ret <=> ~fallback)

\* the flat of TI in the LOW band was resolved: ctrl + m
C19_Witness ==
    /\ applied.fn = "get_key_press"
    /\ applied.arg = GameNote(LOW, TI, FLAT)
    /\ applied.ret = KeyPress("m", <<"ctrl">>)

\* C20: for every range 0 <= min <= max <= 127, calculate_offset is 0 when
\* the range lies in [48, 83]; otherwise, with rawOffset = 65.5 - (min +
\* max) / 2, it is the multiple of 12 nearest to rawOffset when the span is
\* at most 36 and that shift puts the range inside [48, 83], and rawOffset
\* rounded to a nearest integer otherwise.  (48, 83) gives 0 and (36, 71)
\* gives 12.
C20_OffsetIsReference ==
    applied.fn = "calculate_offset" =>
      LET lo == applied.arg[1]
          hi == applied.arg[2]
          raw2 == 131 - (lo + hi)
          Abs(x) == IF x >= 0 THEN x ELSE -x
          Fits(k) == 48 <= lo + k /\ hi + k <= 83
          Twelves == {12 * n : n \in -11..11}
          NearestTwelves ==
              {k \in Twelves : \A j \in Twelves : Abs(2 * k - raw2) <= Abs(2 * j - raw2)}
      IN  /\ IF 48 <= lo /\ hi <= 83
             THEN applied.ret = 0
             ELSE IF hi - lo + 1 <= 36 /\ \E k \in NearestTwelves : Fits(k)
             THEN applied.ret \in NearestTwelves /\ Fits(applied.ret)
             ELSE Abs(2 * applied.ret - raw2) <= 1
          /\ applied.arg = <<48, 83>> => applied.ret = 0
          /\ applied.arg = <<36, 71>> => applied.ret = 12

\* the range one octave below the instrument's was shifted up by an octave
C20_Witness ==
    /\ applied.fn = "calculate_offset"
    /\ applied.arg = <<36, 71>>
    /\ applied.ret = 12

\* C21: for every range of at most 36 semitones, the calculated offset puts
\* the whole range inside [48, 83], so that get_out_of_range_count with
\* that offset is (0, 0); a range that reaches below the window gets a
\* positive offset and one that reaches above it a negative offset.
C21_NarrowRangeFitsAfterShift ==
    LET lo == applied.arg[1]
        hi == applied.arg[2]
    IN  /\ applied.fn = "calculate_offset" /\ hi - lo + 1 <= 36 =>
            /\ 48 <= lo + applied.ret
            /\ hi + applied.ret <= 83
            /\ lo < 48 => applied.ret > 0
            /\ hi > 83 => applied.ret < 0
        /\ applied.fn = "get_out_of_range_count" /\ hi - lo + 1 <= 36 =>
            applied.ret = <<0, 0>>

\* a range of 35 semitones above the window was counted after its shift
C21_Witness ==
    /\ applied.fn = "get_out_of_range_count"
    /\ applied.arg = <<90, 124>>
    /\ applied.ret = <<0, 0>>

C23_FilterKeepsOnsetTimes ==
    applied.fn = "filter_to_window" =>
      LET w == applied.ret.window_start
          out == applied.ret.events
          InWindow(e) == w <= e.note /\ e.note <= w + 35
          kept == SelectSeq(applied.arg, InWindow)
      IN  /\ Len(out) = Len(kept)
          /\ \A j \in 1..Len(out) :
                /\ out[j].note = kept[j].note
                /\ out[j].velocity = kept[j].velocity
                /\ OnsetTime(out, j) = OnsetTime(applied.arg, kept[j].velocity - 60)

\* the second of three onsets was dropped and its delta went to the third
C23_Witness ==
    /\ applied.fn = "filter_to_window"
    /\ Len(applied.arg) = 3
    /\ applied.arg[2].time_delta = 500
    /\ applied.arg[3].time_delta = 500
    /\ Len(applied.ret.events) = 2
    /\ applied.ret.events[2].velocity = 63
    /\ applied.ret.events[2].time_delta = 1000

\* C24: with auto_optimize, after the load of a song whose span (max - min
\* + 1) exceeds 36 semitones, the onsets kept lie in one 36-semitone window
\* and, shifted by the transpose offset, inside [48, 83].
C24_WideSongIsCutToWindow ==
    applied.fn = "load_midi" /\ applied.ret.auto_optimize /\ applied.arg # <<>> =>
      LET given == NotesOf(applied.arg)
          kept == NotesOf(applied.ret.loaded.events)
          offset == applied.ret.loaded.transpose_offset
      IN  MaxOf(Range(given)) - MinOf(Range(given)) + 1 > 36 =>
            /\ kept # <<>>
            /\ MaxOf(Range(kept)) - MinOf(Range(kept)) + 1 <= 36
            /\ \A k \in DOMAIN kept : 48 <= kept[k] + offset /\ kept[k] + offset <= 83

\* the compiled note k is a later member of the chord that starts at an
\* earlier note of the compiled song
LaterMember(song, k) ==
    \E b \in 1..(k - 1) :
        song.notes[b].chord_size > 1 /\ k <= b + song.notes[b].chord_size - 1

\* the size of the cluster that the compiled note k opens: that of its
\* chord, and 1 for a note that is no chord-start
ClusterSize(song, k) ==
    IF song.notes[k].chord_size > 1 THEN song.notes[k].chord_size ELSE 1

RECURSIVE SumOfClusters(_, _)
SumOfClusters(song, k) ==
    IF k = 0 THEN 0
    ELSE SumOfClusters(song, k - 1)
         + (IF LaterMember(song, k) THEN 0 ELSE ClusterSize(song, k))

\* C25: compile puts two consecutive onsets in the same chord cluster
\* exactly when the later onset's delta is at most the chord threshold;
\* the chordSize - 1 members of a chord directly follow its chord-start
\* note, and the cluster sizes sum to the onset count, which is the
\* compiled note count.
C25_ClustersFollowThreshold ==
    applied.fn = "compile" =>
        LET evs == applied.arg
            song == applied.ret
        IN  /\ Len(song.notes) = Len(evs)
            /\ song.total_notes = Len(evs)
            /\ \A k \in 2..Len(evs) :
                   LaterMember(song, k) <=> evs[k].time_delta <= ChordThresholdMs
            /\ \A b \in 1..Len(evs) :
                   /\ song.notes[b].is_chord_start <=> song.notes[b].chord_size > 1
                   /\ song.notes[b].chord_size > 1 =>
                         \A m \in (b + 1)..(b + song.notes[b].chord_size - 1) :
                            /\ m <= Len(evs)
                            /\ ~song.notes[m].is_chord_start
                            /\ song.notes[m].chord_size = 0
            /\ SumOfClusters(song, Len(evs)) = Len(evs)

\* a chord of two whose second onset lies exactly the threshold after the
\* first, followed by a note of its own
C25_Witness ==
    /\ applied.fn = "compile"
    /\ Len(applied.arg) = 3
    /\ applied.arg[2].time_delta = ChordThresholdMs
    /\ applied.arg[3].time_delta > ChordThresholdMs
    /\ applied.ret.notes[1].chord_size = 2

\* the statement of C26 with a chordSize of 0 on a single note
C26_Original ==
    applied.fn = "compile" =>
        LET evs == applied.arg
            song == applied.ret
        IN  \A k \in 1..Len(song.notes) :
               IF LaterMember(song, k)
               THEN /\ song.notes[k].time_delta = 0
                    /\ song.notes[k].chord_size = 0
               ELSE /\ song.notes[k].time_delta = evs[k].time_delta
                    /\ song.notes[k].chord_size =
                          IF chord_end(evs, k + 1) - k > 1
                          THEN chord_end(evs, k + 1) - k ELSE 0

\* C26: only the first member of a cluster carries the cluster's timing
\* delta and later members carry 0; the first member's chordSize is the
\* cluster size, which is 1 for a single note; later members' chordSize
\* is 0.
C26_FirstMemberCarriesClusterSize ==
    applied.fn = "compile" =>
        LET evs == applied.arg
            song == applied.ret
        IN  \A k \in 1..Len(song.notes) :
               IF LaterMember(song, k)
               THEN /\ song.notes[k].time_delta = 0
                    /\ song.notes[k].chord_size = 0
               ELSE /\ song.notes[k].time_delta = evs[k].time_delta
                    /\ song.notes[k].chord_size = chord_end(evs, k + 1) - k

\* a single note, then a chord of two whose second onset has a delta of
\* its own
C26_Witness ==
    /\ applied.fn = "compile"
    /\ Len(applied.arg) = 3
    /\ applied.arg[2].time_delta > ChordThresholdMs
    /\ applied.arg[3].time_delta = ChordThresholdMs
    /\ applied.ret.notes[1].chord_size = 1
    /\ applied.ret.notes[2].chord_size = 2
    /\ applied.ret.notes[3].time_delta = 0

\* C27: the density map has one entry per compiled note, and entry i is
\* the number of compiled notes whose cumulative onset time lies within
\* one second, inclusive, of note i's, divided by 2.
C27_DensityPerNote ==
    applied.fn = "compile" =>
        LET song == applied.ret
            at(k) == cumulative(song.notes, k)
            near(k) == {m \in 1..Len(song.notes) :
                          at(m) >= at(k) - 1000 /\ at(m) <= at(k) + 1000}
        IN  /\ Len(song.density_map) = Len(song.notes)
            /\ Len(song.density_map) = song.total_notes
            /\ \A k \in 1..Len(song.notes) :
                   song.density_map[k][1] * 2
                     = Cardinality(near(k)) * song.density_map[k][2]

\* three notes: the second exactly one second after the first, the third
\* beyond one second from the first
C27_Witness ==
    /\ applied.fn = "compile"
    /\ Len(applied.ret.notes) = 3
    /\ cumulative(applied.ret.notes, 2) = 1000
    /\ cumulative(applied.ret.notes, 3) > 1000
    /\ applied.ret.density_map[1] = <<2, 2>>
    /\ applied.ret.density_map[2] = <<3, 2>>

RECURSIVE SumOfDeltas(_, _)
SumOfDeltas(evs, k) ==
    IF k = 0 THEN 0 ELSE SumOfDeltas(evs, k - 1) + evs[k].time_delta

\* C28: the total duration of a compiled song is the sum of the deltas of
\* all its onset events; deltas 0.0, 0.5, 0.5 give 3 notes, no chords and
\* a total duration of 1.0.
C28_DurationIsSumOfDeltas ==
    applied.fn = "compile" =>
        /\ applied.ret.duration = SumOfDeltas(applied.arg, Len(applied.arg))
        /\ (/\ Len(applied.arg) = 3
            /\ \A k \in 1..3 :
                  applied.arg[k].time_delta = (IF k = 1 THEN 0 ELSE 500))
           => /\ applied.ret.total_notes = 3
              /\ \A k \in 1..3 : ~applied.ret.notes[k].is_chord_start
              /\ applied.ret.duration = 1000

\* worker w is about to hand over the first note since its pass began or
\* since the last resume
FirstNoteDue(w) == emit_log[w] = <<>> \/ Len(resumed) = 1

\* C29: every note handed to the sink, other than the first one after the
\* session is started or resumed, comes after an imposed delay of at least
\* the minimum note delay, also when seek, set_loop_a/b or an A-B jump
\* occur during the session.
C29_MinDelayBetweenNotes ==
    \A w \in Workers :
        (pc[w] = "call" /\ ~FirstNoteDue(w)) => w_delay[w] >= MinNoteDelayMs

\* both loop points are set and the cursor of worker w is at or past point B
AtLoopEnd(w) ==
    ab_loop_end # None /\ ab_loop_start # None /\ w_i[w] >= ab_loop_end

\* C30: when both loop points are set and the cursor of a worker reaches an
\* index at or past point B, the note at that index is not handed over;
\* the cursor jumps to point A, the timer's reference point is reset, and
\* the next note handed over is the one at point A.
C30_JumpAtLoopEnd ==
    [][\A w \in Workers :
          /\ (pc[w] = "loop_top" /\ pc'[w] = "delay") => ~AtLoopEnd(w)
          /\ (jumped'[w] # <<>> /\ jumped'[w] # jumped[w]) =>
                /\ AtLoopEnd(w)
                /\ w_i'[w] = ab_loop_start
                /\ pc'[w] = "loop_top"
                /\ emit_log'[w] = emit_log[w]
                /\ next_time' = "reference"
          /\ (pc[w] = "call" /\ pc'[w] = "emit" /\ jumped[w] # <<>>) =>
                /\ w_i[w] = jumped[w][1]
                /\ emit_log'[w] = Append1(emit_log[w], jumped[w][1])]_vars

\* notes were handed over, the cursor came to point B and jumped, and the
\* note at point A is about to be handed over
C30_Witness ==
    \E w \in Workers :
        /\ pc[w] = "call"
        /\ emit_log[w] # <<>>
        /\ ab_loop_start # None /\ ab_loop_end # None
        /\ jumped[w] = <<ab_loop_start>>
        /\ w_i[w] = ab_loop_start
        /\ next_time = "reference"

\* C31: the timer keeps an absolute, accumulating deadline: wait(d) moves
\* the deadline to the previous deadline + d and does not return before
\* it; reset() sets the deadline to the current time; so after a reset at
\* time t and waits d1..dk the k-th wait does not return before
\* t + d1 + ... + dk, and a wait whose deadline is already past returns
\* without blocking.
C31_AccumulatingDeadline ==
    IsTimer =>
        /\ part.last.op = "wait" =>
              /\ part.deadline = part.last.deadline_before + part.last.duration
              /\ part.now >= part.deadline
              /\ part.now >= part.base + part.waited
              /\ part.deadline <= part.last.called_at => part.now = part.last.called_at
        /\ part.last.op = "reset" => part.deadline = part.now

\* the caller fell behind: a second wait since the reset whose deadline
\* had passed when it was called, and which is still counted from the
\* reset
C31_Witness ==
    /\ IsTimer
    /\ part.last.op = "wait"
    /\ part.base > 0
    /\ part.waited > part.last.duration
    /\ part.deadline < part.last.called_at
    /\ part.deadline = part.base + part.waited

\* C32: whenever no control operation is in the middle of executing, the
\* pause signal is set if and only if the state is PAUSED, under every
\* interleaving of control calls and worker steps; so the state is never
\* PLAYING while a worker polls the pause signal.
C32_PauseSignalAgreesWithState ==
    ctl = "idle" => (pause_flag <=> state = PAUSED)

\* C33: with the whole-song loop on, the state does not leave PLAYING at
\* the restart: a pass that ends in state PLAYING, neither stopped nor
\* paused, hands over to the next pass in state PLAYING, so that pause()
\* works on every pass.
C33_LoopStaysPlaying ==
    [][\A w \in Workers :
          (/\ pc[w] = "cleanup" /\ pc'[w] = "after_play"
           /\ loop_mode /\ ~stop_flag /\ ~pause_flag /\ state = PLAYING)
          => state' = PLAYING]_vars

\* C34: stopping never advances the playlist: stop() leaves the playlist
\* index and the loaded song unchanged, a worker moves the index only by
\* +1 and only at a natural end of the song with the stop signal clear,
\* and with a non-empty playlist the index stays within it.
C34_StopKeepsPlaylistEntry ==
    [][/\ lastOp'[1] \in {"stop", "stop_join"} => UNCHANGED <<playlist_index, loaded>>
       /\ (lastOp'[1] = "worker" /\ playlist_index' # playlist_index) =>
             /\ playlist_index' = playlist_index + 1
             /\ ~stop_flag
             /\ \E w \in Workers :
                   /\ pc[w] = "after_play" /\ pc'[w] = "outer"
                   /\ w_i[w] >= Len(w_song[w])
       /\ playlist' # <<>> =>
             (0 <= playlist_index' /\ playlist_index' < Len(playlist'))]_vars

\* C35: an active A-B loop never stalls playback: whatever the two loop
\* points are, a session that has jumped to point A and is neither
\* paused nor stopped eventually hands over a note or ends.
C35_LoopNeverStalls ==
    \A w \in Workers :
        (jumped[w] # <<>>) ~> (jumped[w] = <<>> \/ pause_flag \/ stop_flag)

\* C36: when no press or press_multiple is in progress, the sink holds no key
\* and no modifier down and tracks no modifier: every key-down of an operation
\* has been followed by its key-up, whether the operation returned or raised
\* part-way, and whether or not release_all ran while it was in progress.
C36_NothingHeldAtQuiescence ==
    (IsKeyboard /\ part.in = "idle") =>
        /\ part.down = {}
        /\ part.held_modifiers = {}
\* an operation that pressed a key after release_all had run has ended
C36_Witness ==
    /\ IsKeyboard
    /\ part.in = "idle"
    /\ part.down_after_sweep
    /\ part.outcome = "returned"
\* an operation that raised part-way has ended
C36_RaisedWitness ==
    /\ IsKeyboard
    /\ part.in = "idle"
    /\ part.outcome = "raised"

\* C37: while the pause signal stays set, that is from the return of a pause()
\* that left the state PAUSED until start() or stop() is called, every worker
\* begins at most one more sink call (one note or one chord).
C37_AtMostOneAfterPause ==
    \A w \in Workers : pause_flag => emit_after_pause[w] <= 1
\* a worker handed its one more note over after pause() and now polls the
\* pause signal at the top of its loop
C37_Witness ==
    \E w \in Workers :
        /\ pause_flag
        /\ ~stop_flag
        /\ state = PAUSED
        /\ emit_after_pause[w] = 1
        /\ pc[w] = "loop_top"

\* C38: once a song is loaded, the event list, the transpose offset and the
\* compiled song belong together in every state, so in particular after every
\* load_midi and every reload_track that succeeded: the compiled song is the
\* compilation of the current events with the current offset.
C38_LoadedStaysConsistent ==
    compiled_song # NoSong => IsLoaded(compiled_song)

\* C39: for every MIDI note 0..127 and every transpose offset, convert and
\* get_key_press return a game note and a command on one of the 21 game keys
\* without the fallback to the natural key: a sharp is only spelled on DO, FA
\* or SOL and is played with shift, a flat only on MI or TI and is played
\* with ctrl, a natural with no modifier; and no other pitch of 48..83 has
\* the command of a transposed pitch in 48..83, so that the 36 pitches have
\* 36 different commands and compile finds a command for every event.
C39_PipelineTotalAndInjective ==
    applied.fn = "key_of" =>
        LET transposed == applied.arg.note + applied.arg.offset
            game_note == applied.ret.game_note
            key_press == applied.ret.key_press
        IN  /\ game_note \in GameNotes
            /\ key_press.key \in ReleasedLetters
            /\ game_note.accidental = SHARP =>
                  game_note.name \in {DO, FA, SOL} /\ key_press.modifiers = <<"shift">>
            /\ game_note.accidental = FLAT =>
                  game_note.name \in {MI, TI} /\ key_press.modifiers = <<"ctrl">>
            /\ game_note.accidental = NATURAL => key_press.modifiers = <<>>
            /\ transposed \in GAME_MIN_MIDI..GAME_MAX_MIDI =>
                  \A other \in GAME_MIN_MIDI..GAME_MAX_MIDI :
                      other # transposed => key_of(other).key_press # key_press
\* a flat inside the range: B flat of the middle octave, reached by a transposition
C39_Witness ==
    /\ applied.fn = "key_of"
    /\ applied.arg.offset # 0
    /\ applied.arg.note + applied.arg.offset = 70
    /\ applied.ret.key_press = KeyPress("j", <<"ctrl">>)

\* C40: whenever a compiled song with at least one note is loaded, the start
\* position and the current position are indices of that song:
\* 0 <= position <= total_notes - 1.
C40_PositionsWithinLoadedSong ==
    (compiled_song # NoSong /\ total_notes(compiled_song) > 0) =>
        /\ 0 <= start_position /\ start_position <= total_notes(compiled_song) - 1
        /\ 0 <= current_position /\ current_position <= total_notes(compiled_song) - 1

====
